---- MODULE Spec2Model ----
(***************************************************************************)
(* Model of the test_lang front end: the two-token-lookahead statement     *)
(* parser (test_lang/src/parser/mod.rs) and the precedence-climbing        *)
(* expression parser (test_lang/src/parser/expr.rs).                       *)
(*                                                                         *)
(* A token is modelled by its source text (a string); its span is computed *)
(* from the text widths, tokens being separated by one blank.  The parser  *)
(* struct is a record that every parse function takes and returns, just as *)
(* the Rust methods take `&mut self`.  A `Result<T, Error>` is the record  *)
(* [p, ok, v]: the parser after the call, the Ok/Err tag and the payload.  *)
(* A Rust `let x = e;` is Bind(e, LAMBDA x : ...); a bound value is only   *)
(* computed where the rest of the function reads it, so the bindings of a  *)
(* function are listed first and its early returns follow in source order. *)
(*                                                                         *)
(* After the parsers come the pretty-printer of the root crate             *)
(* (src/ast.rs), the SlotMap of the static analysis                        *)
(* (test_lang/src/static_analysis/utils.rs), the scope stack and the `set` *)
(* statement of the tree-walking interpreter (src/tree_walk.rs) and the    *)
(* constant instructions of the vm (vm/src).  Each has a specification of  *)
(* its own, in which the other machines stay as they were constructed.     *)
(***************************************************************************)
EXTENDS Integers, Sequences, FiniteSets, TLC

\* source, parser, pc and result are the text, the parser over it, the
\* position of the program and what the last call returned; slot_map,
\* scopes and module are the SlotMap of the static analysis, the ScopeStack
\* of the tree-walking interpreter and the ModuleBuilder of the vm
VARIABLES source, parser, pc, result, slot_map, scopes, module

vars == <<source, parser, pc, result, slot_map, scopes, module>>

machines == <<slot_map, scopes, module>>

-----------------------------------------------------------------------------
(* Tokens *)

Keywords ==
    {"function", "var", "let", "const", "class", "mut", "set", "copy", "true",
     "false", "delete", "if", "else", "while", "and", "or", "ref", "return",
     "break", "continue", "print", "pub", "constructor"}

Idents == {"a", "b", "c", "f", "x", "y", "C"}

Integers_ == {"1", "2", "3"}

Floats == {"1.5"}

Strings == {"\"s\""}

\* the lexer's Err(()) item: a character no token rule matches
LexError == "@"

\* Option::None in a lookahead slot
None == "<none>"

Newline == "\n"

IsIdent(t) == t \in Idents

-----------------------------------------------------------------------------
(* Spans and the token stream *)

Span(s, e) == <<s, e>>

RECURSIVE LexFrom(_, _, _)
LexFrom(toks, i, at) ==
    IF i > Len(toks) THEN <<>>
    ELSE <<[tok |-> toks[i], span |-> Span(at, at + Len(toks[i]))]>>
         \o LexFrom(toks, i + 1, at + Len(toks[i]) + 1)

\* Token::lexer(source).spanned(): the (token, span) items, the number of
\* items already pulled, and source().len()
Lexer(toks) ==
    LET items == LexFrom(toks, 1, 0)
    IN  [items |-> items,
         pos   |-> 0,
         len   |-> IF items = <<>> THEN 0 ELSE items[Len(items)].span[2]]

-----------------------------------------------------------------------------
(* Errors *)

ET(name) == [name |-> name, arg |-> ""]

ExpectedToken(t) == [name |-> "ExpectedToken", arg |-> t]

ErrorNew(span, err_type) == [err_type |-> err_type, span |-> span]

two_location(first, second, first_msg, err_type) ==
    [err_type |-> err_type, first_msg |-> first_msg,
     first |-> first, second |-> second]

ErrorEof(span) == ErrorNew(span, ET("UnexpectedEOF"))

ErrorToken(span) == ErrorNew(span, ET("UnexpectedToken"))

ErrorIdent(span) == ErrorNew(span, ET("ExpectedIdent"))

IsEOF(e) == e.err_type = ET("UnexpectedEOF")

-----------------------------------------------------------------------------
(* Results *)

Ok(p, v) == [p |-> p, ok |-> TRUE, v |-> v]

Err(p, e) == [p |-> p, ok |-> FALSE, v |-> e]

Unit == [t |-> "Unit"]

NoneV == [t |-> "None"]

\* `let x = e; ...`: the rest of the function with x bound to e
Bind(e, Rest(_)) == Rest(e)

-----------------------------------------------------------------------------
(* Token cursor and span tracker *)

\* next that returns the token in the first lookahead slot and shifts nothing
next_NoAdvance(p) ==
    [p  |-> p,
     ok |-> p.lookahead[1] \notin {None, LexError},
     v  |-> CASE p.lookahead[1] = None     -> ErrorEof(p.spans[1])
              [] p.lookahead[1] = LexError -> ErrorToken(p.spans[1])
              [] OTHER                     -> p.lookahead[1]]

next(p) ==
    Bind(p.lookahead[1], LAMBDA ret :
    Bind(p.lexer.pos < Len(p.lexer.items), LAMBDA more :
    Bind(p.lexer.items[p.lexer.pos + 1], LAMBDA item :
    Bind([p EXCEPT
            !.lookahead = <<p.lookahead[2],
                            IF more THEN item.tok ELSE None>>,
            !.lexer.pos = IF more THEN p.lexer.pos + 1 ELSE p.lexer.pos,
            !.spans = <<p.spans[2], p.spans[3],
                        IF more THEN item.span
                        ELSE Span(p.lexer.len, p.lexer.len)>>], LAMBDA q :
        CASE ret = None     -> Err(q, ErrorEof(q.spans[1]))
          [] ret = LexError -> Err(q, ErrorToken(q.spans[1]))
          [] OTHER          -> Ok(q, ret)))))

span(p) == p.spans[1]

peek_span(p) == p.spans[2]

peek1_span(p) == p.spans[3]

peek(p) ==
    CASE p.lookahead[1] = None     -> Err(p, ErrorEof(p.spans[1]))
      [] p.lookahead[1] = LexError -> Err(p, ErrorToken(span(p)))
      [] OTHER                     -> Ok(p, p.lookahead[1])

peek1(p) ==
    CASE p.lookahead[2] = None     -> Err(p, ErrorEof(p.spans[1]))
      [] p.lookahead[2] = LexError -> Err(p, ErrorToken(span(p)))
      [] OTHER                     -> Ok(p, p.lookahead[2])

\* peek() matched against Ok(tok)
PeekIs(p, tok) == peek(p).ok /\ peek(p).v = tok

PeekIn(p, toks) == peek(p).ok /\ peek(p).v \in toks

ParserNew(toks) ==
    Bind([lexer            |-> Lexer(toks),
          lookahead        |-> <<None, None>>,
          spans            |-> <<Span(0, 0), Span(0, 0), Span(0, 0)>>,
          func_count       |-> 0,
          class_count      |-> 0,
          non_fatal_errors |-> <<>>], LAMBDA ret :
        next(next(ret).p).p)

try_next(p, tok) ==
    IF ~peek(p).ok THEN peek(p)
    ELSE IF peek(p).v = tok
         THEN Bind(next(p), LAMBDA n : IF n.ok THEN Ok(n.p, Unit) ELSE n)
         ELSE Err(p, ErrorNew(peek_span(p), ExpectedToken(tok)))

ident(p) ==
    Bind(next(p), LAMBDA n :
        IF ~n.ok THEN n
        ELSE IF IsIdent(n.v) THEN n
             ELSE Err(n.p, ErrorIdent(span(n.p))))

RECURSIVE skip_newline(_)
skip_newline(p) ==
    IF PeekIs(p, Newline) THEN skip_newline(next(p).p) ELSE p

at_eof(p) == p.lookahead[1] = None

push_err(p, err) ==
    [p EXCEPT !.non_fatal_errors = Append(p.non_fatal_errors, err)]

\* returns the id and the parser with the counter bumped
get_class_id(p) ==
    [p |-> [p EXCEPT !.class_count = p.class_count + 1], v |-> p.class_count]

\* get_func_id that hands out the counter without advancing it
get_func_id_NoAdvance(p) == [p |-> p, v |-> p.func_count]

get_func_id(p) ==
    [p |-> [p EXCEPT !.func_count = p.func_count + 1], v |-> p.func_count]

-----------------------------------------------------------------------------
(* Permissions: a bit set, modelled as the set of the bit positions set *)

PermEmpty == {}

IS_VARIABLE == {5}

REASSIGN == {5, 4}

MUTATE == {3}

PUBLIC == {2}

PUBLIC_MUTABLE == {2, 1}

PUBLIC_REASSIGN == {5, 2, 0}

Contains(perms, flag) == flag \subseteq perms

Some(x) == [t |-> "Some", v |-> x]

\* usize value of u8::MAX, the cap on parameter and argument counts
U8_MAX == 255

-----------------------------------------------------------------------------
(* Statement parser: the helpers that do not recurse *)

\* the end of parse_publicity with Some(perms) whatever perms holds
publicity_result_Always(perms) == Some(perms)

\* the end of parse_publicity: `if perms.contains(Permissions::PUBLIC)`
publicity_result(perms) ==
    IF Contains(perms, PUBLIC) THEN Some(perms) ELSE NoneV

parse_publicity(p) ==
    LET Finish(q, perms) == Ok(q, publicity_result(perms))
        Close(q, perms) ==
            Bind(try_next(q, ")"), LAMBDA t :
                IF t.ok THEN Finish(t.p, perms) ELSE t)
    IN
    Bind(peek(p), LAMBDA pk :
        IF ~pk.ok THEN pk
        ELSE IF pk.v # "pub" THEN Finish(p, PermEmpty)
        ELSE Bind(next(p).p, LAMBDA p1 :
             Bind(peek(p1), LAMBDA pk1 :
                 IF ~pk1.ok THEN pk1
                 ELSE IF pk1.v # "(" THEN Finish(p1, PermEmpty \cup PUBLIC)
                 ELSE Bind(next(next(p1).p), LAMBDA n3 :
                          IF ~n3.ok THEN n3
                          ELSE IF n3.v = "var"
                          THEN Bind(peek(n3.p), LAMBDA pk4 :
                                   IF ~pk4.ok THEN pk4
                                   ELSE IF pk4.v = "mut"
                                   THEN Close(next(n3.p).p,
                                              PUBLIC_REASSIGN \cup PUBLIC_MUTABLE)
                                   ELSE Close(n3.p, PUBLIC_REASSIGN))
                          ELSE IF n3.v = "mut"
                          THEN Close(n3.p, PUBLIC_MUTABLE)
                          ELSE Err(n3.p, ErrorToken(span(n3.p)))))))

parse_var_type(p) ==
    Bind(next(p), LAMBDA n :
    Bind(IF n.v = "var" THEN REASSIGN ELSE IS_VARIABLE, LAMBDA base :
        IF ~(n.ok /\ n.v \in {"var", "let"})
        THEN Err(n.p, ErrorToken(span(n.p)))
        ELSE IF PeekIs(n.p, "mut")
             THEN Ok(next(n.p).p, base \cup MUTATE)
             ELSE Ok(n.p, base)))

parse_partial_var_type(p) ==
    Bind(peek(p), LAMBDA pk :
        IF ~pk.ok THEN pk
        ELSE IF pk.v = "mut" THEN Ok(next(p).p, MUTATE)
        ELSE IF pk.v = "var"
        THEN Bind(next(p).p, LAMBDA p1 :
             Bind(peek(p1), LAMBDA pk1 :
                 IF ~pk1.ok THEN pk1
                 ELSE IF pk1.v = "mut"
                      THEN Ok(next(p1).p, REASSIGN \cup MUTATE)
                      ELSE Ok(p1, REASSIGN)))
        ELSE Ok(p, PermEmpty))

parse_function_param(p) ==
    Bind(peek_span(p)[1], LAMBDA start :
    Bind(parse_partial_var_type(p), LAMBDA vt :
        IF ~vt.ok THEN vt
        ELSE Bind(ident(vt.p), LAMBDA nm :
                 IF ~nm.ok THEN nm
                 ELSE Ok(nm.p, [span     |-> Span(start, span(nm.p)[2]),
                                var_type |-> vt.v,
                                name     |-> nm.v]))))

\* parse_stmt_end that records the missing line ending and carries on
parse_stmt_end_NonFatal(p) ==
    Bind(peek(p), LAMBDA pk :
        IF pk.ok
        THEN IF pk.v \in {Newline, ";"}
             THEN Bind(next(p), LAMBDA n : IF n.ok THEN Ok(n.p, Unit) ELSE n)
             ELSE Ok(push_err(p, ErrorNew(peek_span(p), ET("LineEnding"))),
                     Unit)
        ELSE Ok(p, Unit))

parse_stmt_end(p) ==
    Bind(peek(p), LAMBDA pk :
        IF pk.ok
        THEN IF pk.v \in {Newline, ";"}
             THEN Bind(next(p), LAMBDA n : IF n.ok THEN Ok(n.p, Unit) ELSE n)
             ELSE Err(p, ErrorNew(peek_span(p), ET("LineEnding")))
        ELSE Ok(p, Unit))

-----------------------------------------------------------------------------
(* Statement and expression parser: the mutually recursive functions.  A   *)
(* Rust loop is a recursive operator that carries the loop's locals.       *)

RECURSIVE Parse(_, _), parse_stmt(_), parse_block(_), block_loop(_, _, _),
          parse_if_stmt(_), if_loop(_, _, _), parse_while_stmt(_),
          parse_class_stmt(_, _), class_loop(_, _, _),
          parse_function_stmt(_, _), parse_function_inner(_, _, _),
          parse_set_var_stmt(_), parse_create_const_stmt(_),
          parse_create_var_stmt(_), parse_expr(_), parse_tail_expr(_, _),
          parse_paren_list(_, _), paren_list_loop(_, _, _, _),
          parse_bin_op_expr(_), parse_unary_op_expr(_), parse_paren_expr(_),
          parse_literal_expr(_), object_loop(_, _, _), list_loop(_, _, _)

\* UnclosedAt with the diagnostic anchored at the next token instead of the
\* opening delimiter
UnclosedAt_PeekStart(p, start, err_type) ==
    Err(p, ErrorNew(Span(peek_span(p)[1], peek_span(p)[2]), ET(err_type)))

\* Err(Error::new(start..span.end, err_type)) with span = self.peek_span():
\* the unclosed-delimiter diagnostic of the bracket opened at `start`
UnclosedAt(p, start, err_type) ==
    Err(p, ErrorNew(Span(start, peek_span(p)[2]), ET(err_type)))

\* an Err(e) result with UnexpectedEOF rewritten to the unclosed-delimiter
\* diagnostic of the bracket opened at `start`; other errors are returned as is
Unclosed(r, start, err_type) ==
    IF IsEOF(r.v) THEN UnclosedAt(r.p, start, err_type) ELSE r

\* SetConstructor that keeps the constructor defined first
SetConstructor_KeepFirst(p, st, new_constructor) ==
    [p  |-> IF st.constructor.t # "None"
            THEN push_err(p, two_location(st.constructor.span,
                                          new_constructor.span,
                                          "Constructor previously defined here",
                                          ET("ConstructorRedefined")))
            ELSE p,
     st |-> IF st.constructor.t # "None" THEN st
            ELSE [st EXCEPT !.constructor = new_constructor]]

\* a constructor was parsed in a class body: a second one is reported, the
\* newest is kept
SetConstructor(p, st, new_constructor) ==
    [p  |-> IF st.constructor.t # "None"
            THEN push_err(p, two_location(st.constructor.span,
                                          new_constructor.span,
                                          "Constructor previously defined here",
                                          ET("ConstructorRedefined")))
            ELSE p,
     st |-> [st EXCEPT !.constructor = new_constructor]]

\* ConstructorCheck that forgets to look at the fields
ConstructorCheck_AnyClass(p, start, end, fields, constructor) ==
    IF constructor.t = "None"
    THEN push_err(p, ErrorNew(Span(start, end), ET("ConstructorRequired")))
    ELSE p

\* end of a class body: fields without a constructor are reported
ConstructorCheck(p, start, end, fields, constructor) ==
    IF Len(fields) > 0 /\ constructor.t = "None"
    THEN push_err(p, ErrorNew(Span(start, end), ET("ConstructorRequired")))
    ELSE p

parse_file_loop_body(p, items) ==
    Bind(Parse("stmt", p), LAMBDA s :
        IF s.ok THEN Ok(skip_newline(s.p), Append(items, s.v)) ELSE s)

RECURSIVE parse_file_loop(_, _)
parse_file_loop(p, items) ==
    IF at_eof(p) THEN Ok(p, items)
    ELSE Bind(parse_file_loop_body(p, items), LAMBDA b :
             IF b.ok THEN parse_file_loop(b.p, b.v) ELSE b)

parse_file(p) == parse_file_loop(skip_newline(p), <<>>)

parse_stmt(p) ==
    Bind(parse_publicity(p), LAMBDA publicity :
    Bind(publicity.p, LAMBDA q :
    Bind(peek(q), LAMBDA pk :
    LET Leaf(t) ==
            Bind(next(q), LAMBDA n : Ok(n.p, [t |-> t, span |-> span(n.p)]))
        ReturnStmt ==
            Bind(next(q).p, LAMBDA p1 :
            Bind(span(p1)[1], LAMBDA start :
            Bind(IF peek(p1).ok /\ peek(p1).v \notin {Newline, ";"}
                 THEN Parse("expr", p1) ELSE Ok(p1, NoneV), LAMBDA e :
                IF ~e.ok THEN e
                ELSE Ok(e.p, [t |-> "Return",
                              span |-> Span(start, span(e.p)[2]),
                              expr |-> e.v]))))
        DeleteStmt ==
            Bind(next(q).p, LAMBDA p1 :
            Bind(span(p1)[1], LAMBDA start :
            Bind(ident(p1), LAMBDA name :
                IF ~name.ok THEN name
                ELSE Ok(name.p, [t |-> "DeleteVar",
                                 span |-> Span(start, span(name.p)[2]),
                                 name |-> name.v]))))
        PrintStmt ==
            Bind(next(q).p, LAMBDA p1 :
            Bind(span(p1)[1], LAMBDA start :
            Bind(Parse("expr", p1), LAMBDA data :
                IF ~data.ok THEN data
                ELSE Ok(data.p, [t |-> "Print",
                                 span |-> Span(start, span(data.p)[2]),
                                 data |-> data.v]))))
        ExprStmt ==
            Bind(peek_span(q)[1], LAMBDA start :
            Bind(Parse("expr", q), LAMBDA expr :
                IF ~expr.ok THEN expr
                ELSE Ok(expr.p, [t |-> "Expression",
                                 span |-> Span(start, span(expr.p)[2]),
                                 expr |-> expr.v])))
    IN
    Bind(IF publicity.v.t = "Some" THEN pk.v \notin {"function", "class"}
         ELSE pk.v \notin {"function", "class", "if", "while"},
         LAMBDA need_ending :
    Bind(IF publicity.v.t = "Some"
         THEN CASE pk.v = "function" -> parse_function_stmt(q, publicity.v.v)
                [] pk.v = "class"    -> parse_class_stmt(q, publicity.v.v)
                [] OTHER             -> Err(q, ErrorToken(peek_span(q)))
         ELSE CASE pk.v = "function" -> parse_function_stmt(q, PermEmpty)
                [] pk.v = "class"    -> parse_class_stmt(q, PermEmpty)
                [] pk.v = "if"       -> parse_if_stmt(q)
                [] pk.v = "while"    -> parse_while_stmt(q)
                [] pk.v \in {"var", "let"} -> parse_create_var_stmt(q)
                [] pk.v = "set"      -> parse_set_var_stmt(q)
                [] pk.v = "const"    -> parse_create_const_stmt(q)
                [] pk.v = "break"    -> Leaf("Break")
                [] pk.v = "continue" -> Leaf("Continue")
                [] pk.v = "return"   -> ReturnStmt
                [] pk.v = "delete"   -> DeleteStmt
                [] pk.v = "print"    -> PrintStmt
                [] OTHER             -> ExprStmt, LAMBDA ret :
        IF ~publicity.ok THEN publicity
        ELSE IF ~pk.ok THEN pk
        ELSE IF ~ret.ok THEN ret
        ELSE IF need_ending
             THEN Bind(parse_stmt_end(ret.p), LAMBDA e :
                      IF e.ok THEN Ok(e.p, ret.v) ELSE e)
             ELSE ret)))))

parse_while_stmt(p) ==
    Bind(try_next(p, "while"), LAMBDA t :
    Bind(span(t.p)[1], LAMBDA start :
    Bind(Parse("expr", t.p), LAMBDA condition :
    Bind(Parse("block", condition.p), LAMBDA body :
        IF ~t.ok THEN t
        ELSE IF ~condition.ok THEN condition
        ELSE IF ~body.ok THEN body
        ELSE Ok(body.p, [t |-> "WhileLoop",
                         span |-> Span(start, span(body.p)[2]),
                         condition |-> condition.v,
                         body |-> body.v])))))

if_loop(p, conditions, start) ==
    LET Done(q, default) ==
            Ok(q, [t |-> "If", span |-> Span(start, span(q)[2]),
                   conditions |-> conditions, default |-> default])
    IN
    Bind(peek(p), LAMBDA pk :
    Bind(next(p).p, LAMBDA p1 :
    Bind(peek(p1), LAMBDA pk1 :
    Bind(Parse("expr", next(p1).p), LAMBDA cond :
    Bind(Parse("block", cond.p), LAMBDA block :
    Bind(Parse("block", p1), LAMBDA dflt :
        IF ~pk.ok THEN pk
        ELSE IF pk.v # "else" THEN Done(p, NoneV)
        ELSE IF ~pk1.ok THEN pk1
        ELSE IF pk1.v = "if"
             THEN IF ~cond.ok THEN cond
                  ELSE IF ~block.ok THEN block
                  ELSE if_loop(block.p,
                               Append(conditions,
                                      [cond |-> cond.v, block |-> block.v]),
                               start)
        ELSE IF pk1.v = "{"
             THEN IF ~dflt.ok THEN dflt ELSE Done(dflt.p, dflt.v)
        ELSE Err(p1, ErrorNew(peek1_span(p1), ExpectedToken("if")))))))))

parse_if_stmt(p) ==
    Bind(try_next(p, "if"), LAMBDA t :
    Bind(span(t.p)[1], LAMBDA start :
    Bind(Parse("expr", t.p), LAMBDA cond :
    Bind(Parse("block", cond.p), LAMBDA block :
        IF ~t.ok THEN t
        ELSE IF ~cond.ok THEN cond
        ELSE IF ~block.ok THEN block
        ELSE if_loop(block.p, <<[cond |-> cond.v, block |-> block.v]>>, start)))))

class_loop(p, curly_start, st) ==
    Bind(skip_newline(p), LAMBDA p0 :
    Bind(parse_publicity(p0), LAMBDA publicity :
    Bind(IF publicity.v.t = "Some" THEN publicity.v.v ELSE PermEmpty,
         LAMBDA permissions :
    Bind(publicity.p, LAMBDA q :
    Bind(peek(q), LAMBDA pk :
        \* second half of the iteration: `}` ends the body, a line break or
        \* `;` separates members
    LET After(r, st1) ==
            Bind(peek(r), LAMBDA pk2 :
                IF ~pk2.ok THEN Unclosed(pk2, curly_start, "UnclosedCurly")
                ELSE IF pk2.v = "}" THEN Ok(next(r).p, st1)
                ELSE IF pk2.v \in {Newline, ";"}
                     THEN class_loop(skip_newline(next(r).p), curly_start, st1)
                ELSE Err(r, ErrorNew(peek_span(r), ET("LineEnding"))))
        Constructor ==
            Bind(parse_function_inner(q, "Normal", permissions), LAMBDA f :
                IF ~f.ok THEN f
                ELSE After(SetConstructor(f.p, st, f.v).p,
                           SetConstructor(f.p, st, f.v).st))
        Associated ==
            Bind(parse_function_inner(next(q).p, "Normal", permissions),
                 LAMBDA f :
                IF ~f.ok THEN f
                ELSE After(f.p, [st EXCEPT !.associated = Append(@, f.v)]))
        Field ==
            Bind(parse_var_type(q), LAMBDA var_type :
            Bind(ident(var_type.p), LAMBDA name :
                IF ~var_type.ok THEN var_type
                ELSE IF ~name.ok THEN name
                ELSE After(name.p,
                           [st EXCEPT !.fields =
                               Append(@, [var_type |-> var_type.v,
                                          name |-> name.v])])))
        MutMethod ==
            Bind(parse_function_inner(next(q).p, "MutableMethod", permissions),
                 LAMBDA f :
                IF ~f.ok THEN f
                ELSE After(f.p, [st EXCEPT !.methods = Append(@, f.v)]))
        Method ==
            Bind(parse_function_inner(q, "Method", permissions), LAMBDA f :
                IF ~f.ok THEN f
                ELSE After(f.p, [st EXCEPT !.methods = Append(@, f.v)]))
    IN
        IF ~publicity.ok THEN publicity
        ELSE IF ~pk.ok THEN Unclosed(pk, curly_start, "UnclosedCurly")
        ELSE CASE pk.v = "}"             -> Ok(next(q).p, st)
               [] pk.v = "constructor"   -> Constructor
               [] pk.v = "function"      -> Associated
               [] pk.v \in {"var", "let"} -> Field
               [] pk.v = "mut"           -> MutMethod
               [] IsIdent(pk.v)          -> Method
               [] OTHER                  -> Err(q, ErrorToken(peek_span(q))))))))

parse_class_stmt(p, permissions) ==
    Bind(try_next(p, "class"), LAMBDA t :
    Bind(span(t.p)[1], LAMBDA start :
    Bind(ident(t.p), LAMBDA name :
    Bind(try_next(name.p, "{"), LAMBDA open :
    Bind(span(open.p)[1], LAMBDA curly_start :
    Bind(class_loop(open.p, curly_start,
                    [fields |-> <<>>, methods |-> <<>>,
                     associated |-> <<>>, constructor |-> NoneV]), LAMBDA body :
    Bind(span(body.p)[2], LAMBDA end :
    Bind(ConstructorCheck(body.p, start, end,
                          body.v.fields, body.v.constructor), LAMBDA p1 :
    Bind(get_class_id(p1), LAMBDA id :
        IF ~t.ok THEN t
        ELSE IF ~name.ok THEN name
        ELSE IF ~open.ok THEN open
        ELSE IF ~body.ok THEN body
        ELSE Ok(id.p, [t |-> "Class",
                       span |-> Span(start, end),
                       id |-> id.v,
                       permissions |-> permissions,
                       name |-> name.v,
                       constructor |-> body.v.constructor,
                       fields |-> body.v.fields,
                       methods |-> body.v.methods,
                       associated |-> body.v.associated]))))))))))

parse_set_var_stmt(p) ==
    Bind(try_next(p, "set"), LAMBDA t :
    Bind(span(t.p)[1], LAMBDA start :
    Bind(ident(t.p), LAMBDA first :
    LET RECURSIVE path(_, _)
        path(q, left) ==
            IF PeekIs(q, ".")
            THEN Bind(ident(next(q).p), LAMBDA n :
                     IF n.ok THEN path(n.p, Append(left, n.v)) ELSE n)
            ELSE Ok(q, left)
    IN
    Bind(path(first.p, <<first.v>>), LAMBDA left :
    Bind(try_next(left.p, "="), LAMBDA eq :
    Bind(Parse("expr", eq.p), LAMBDA data :
        IF ~t.ok THEN t
        ELSE IF ~first.ok THEN first
        ELSE IF ~left.ok THEN left
        ELSE IF ~eq.ok THEN eq
        ELSE IF ~data.ok THEN data
        ELSE Ok(data.p, [t |-> "SetVar",
                         span |-> Span(start, span(data.p)[2]),
                         left |-> left.v,
                         data |-> data.v])))))))

parse_create_const_stmt(p) ==
    Bind(try_next(p, "const"), LAMBDA t :
    Bind(span(t.p)[1], LAMBDA start :
    Bind(ident(t.p), LAMBDA name :
    Bind(try_next(name.p, "="), LAMBDA eq :
    Bind(Parse("expr", eq.p), LAMBDA data :
        IF ~t.ok THEN t
        ELSE IF ~name.ok THEN name
        ELSE IF ~eq.ok THEN eq
        ELSE IF ~data.ok THEN data
        ELSE Ok(data.p, [t |-> "CreateConst",
                         span |-> Span(start, span(data.p)[2]),
                         name |-> name.v,
                         data |-> data.v]))))))

parse_create_var_stmt(p) ==
    Bind(peek_span(p)[1], LAMBDA start :
    Bind(parse_var_type(p), LAMBDA var_type :
    Bind(ident(var_type.p), LAMBDA name :
    Bind(IF PeekIs(name.p, "=")
         THEN Parse("expr", next(name.p).p)
         ELSE Ok(name.p, NoneV), LAMBDA data :
        IF ~var_type.ok THEN var_type
        ELSE IF ~name.ok THEN name
        ELSE IF ~data.ok THEN data
        ELSE Ok(data.p, [t |-> "CreateVar",
                         span |-> Span(start, span(data.p)[2]),
                         var_type |-> var_type.v,
                         name |-> name.v,
                         data |-> data.v])))))

parse_function_stmt(p, permissions) ==
    Bind(try_next(p, "function"), LAMBDA t :
    Bind(span(t.p)[1], LAMBDA start :
    Bind(parse_function_inner(t.p, "Normal", permissions), LAMBDA func :
        IF ~t.ok THEN t
        ELSE IF ~func.ok THEN func
        ELSE Ok(func.p, [t |-> "FunctionStmt",
                         span |-> Span(start, span(func.p)[2]),
                         func |-> func.v]))))

parse_function_inner(p, func_type, permissions) ==
    Bind(next(p), LAMBDA n :
    Bind(span(n.p)[1], LAMBDA start :
    Bind(parse_paren_list(n.p, "param"), LAMBDA params :
    Bind(IF Len(params.v) > U8_MAX
         THEN push_err(params.p,
                       ErrorNew(span(params.p), ET("TooManyParams")))
         ELSE params.p, LAMBDA p1 :
    Bind(Parse("block", p1), LAMBDA body :
    Bind(span(body.p)[2], LAMBDA end :
    Bind(get_func_id(body.p), LAMBDA id :
        IF ~n.ok THEN n
        ELSE IF ~(IsIdent(n.v) \/ n.v = "constructor")
             THEN Err(n.p, ErrorIdent(span(n.p)))
        ELSE IF ~params.ok THEN params
        ELSE IF ~body.ok THEN body
        ELSE Ok(id.p, [t |-> "Function",
                       permissions |-> permissions,
                       func_type |-> func_type,
                       id |-> id.v,
                       span |-> Span(start, end),
                       name |-> n.v,
                       params |-> params.v,
                       body |-> body.v]))))))))

block_loop(p, start, items) ==
    Bind(skip_newline(p), LAMBDA q :
    Bind(peek(q), LAMBDA pk :
    Bind(Parse("stmt", q), LAMBDA item :
        IF ~pk.ok THEN Unclosed(pk, start, "UnclosedCurly")
        ELSE IF pk.v = "}"
             THEN Bind(next(q).p, LAMBDA r :
                      Ok(r, [t |-> "Block", span |-> Span(start, span(r)[2]),
                             body |-> items]))
        ELSE IF ~item.ok THEN Unclosed(item, start, "UnclosedCurly")
        ELSE block_loop(item.p, start, Append(items, item.v)))))

parse_block(p) ==
    Bind(try_next(p, "{"), LAMBDA t :
        IF ~t.ok THEN t ELSE block_loop(t.p, span(t.p)[1], <<>>))

parse_expr(p) ==
    Bind(peek(p), LAMBDA pk :
    LET CopyExpr ==
            Bind(next(p).p, LAMBDA p1 :
            Bind(span(p1)[1], LAMBDA start :
            Bind(ident(p1), LAMBDA name :
                IF ~name.ok THEN name
                ELSE Ok(name.p, [t |-> "Copy",
                                 span |-> Span(start, span(name.p)[2]),
                                 name |-> name.v]))))
        RefExpr ==
            Bind(next(p).p, LAMBDA p1 :
            Bind(span(p1)[1], LAMBDA start :
            Bind(parse_var_type(p1), LAMBDA var_type :
            Bind(ident(var_type.p), LAMBDA name :
                IF ~var_type.ok THEN var_type
                ELSE IF ~name.ok THEN name
                ELSE Ok(name.p, [t |-> "Ref",
                                 span |-> Span(start, span(name.p)[2]),
                                 var_type |-> var_type.v,
                                 name |-> name.v])))))
    IN
    Bind(CASE pk.v = "copy"        -> CopyExpr
           [] pk.v = "ref"         -> RefExpr
           [] pk.v \in {"!", "-"}  -> parse_unary_op_expr(p)
           [] OTHER                -> parse_bin_op_expr(p), LAMBDA left :
        IF ~pk.ok THEN pk
        ELSE IF ~left.ok THEN left
        ELSE parse_tail_expr(left.p, left.v)))

\* CallNode that builds a plain call whatever the left operand is
CallNode_PlainCall(left, items, start, end) ==
    [t |-> "Call", span |-> Span(start, end), items |-> <<left>> \o items]

\* the node a postfix call builds from the left operand and the arguments
CallNode(left, items, start, end) ==
    CASE left.t = "Field" ->
            [t |-> "MethodCall", span |-> Span(left.span[1], end),
             name |-> left.name, items |-> <<left.left>> \o items]
      [] left.t = "Named" ->
            [t |-> "AssociatedCall", span |-> Span(left.span[1], end),
             name |-> left.name, items |-> items]
      [] OTHER ->
            [t |-> "Call", span |-> Span(start, end),
             items |-> <<left>> \o items]

\* the Newline arm with every token after the line break taken for a dot
BreakContinues_AnyToken(p) == peek1(p).ok

\* the Newline arm of parse_tail_expr: `match self.peek1() { Ok(Token::Dot)`
BreakContinues(p) == peek1(p).ok /\ peek1(p).v = "."

parse_tail_expr(p, left) ==
    Bind(peek(p), LAMBDA pk :
    LET Index ==
            Bind(next(p).p, LAMBDA p1 :
            Bind(span(p1)[1], LAMBDA start :
            Bind(Parse("expr", skip_newline(p1)), LAMBDA right :
            Bind(next(skip_newline(right.p)), LAMBDA close :
                IF ~right.ok THEN Unclosed(right, start, "UnclosedSquare")
                ELSE IF ~close.ok THEN Unclosed(close, start, "UnclosedSquare")
                ELSE IF close.v # "]"
                     THEN Err(close.p, ErrorToken(span(close.p)))
                ELSE parse_tail_expr(close.p,
                        [t |-> "Index",
                         span |-> Span(start, span(close.p)[2]),
                         items |-> <<left, right.v>>])))))
        Field ==
            Bind(next(p).p, LAMBDA p1 :
            Bind(span(p1)[1], LAMBDA start :
            Bind(ident(p1), LAMBDA name :
                IF ~name.ok THEN name
                ELSE parse_tail_expr(name.p,
                        [t |-> "Field",
                         span |-> Span(start, span(name.p)[2]),
                         left |-> left,
                         name |-> name.v]))))
        Call ==
            Bind(peek_span(p)[1], LAMBDA start :
            Bind(parse_paren_list(p, "expr"), LAMBDA items :
            Bind(IF Len(items.v) > U8_MAX
                 THEN push_err(items.p,
                          ErrorNew(span(items.p), ET("TooManyArgs")))
                 ELSE items.p, LAMBDA p1 :
                IF ~items.ok THEN items
                ELSE parse_tail_expr(p1,
                        CallNode(left, items.v, start, span(p1)[2])))))
    IN
        IF ~pk.ok THEN Ok(p, left)
        ELSE CASE pk.v = "["  -> Index
               [] pk.v = "."  -> Field
               [] pk.v = "("  -> Call
               [] pk.v = Newline ->
                    IF BreakContinues(p)
                    THEN parse_tail_expr(next(p).p, left)
                    ELSE Ok(p, left)
               [] OTHER -> Ok(p, left))

\* a call of one of the entry points every construct recurses through:
\* self.parse_stmt(), self.parse_block(), self.parse_expr(), and the item
\* parser `f` handed to parse_paren_list (parse_function_param or parse_expr)
Parse(which, p) ==
    CASE which = "stmt"  -> parse_stmt(p)
      [] which = "block" -> parse_block(p)
      [] which = "expr"  -> parse_expr(p)
      [] which = "param" -> parse_function_param(p)

\* the list with the new item put first
PushItem_Front(items, item) == <<item>> \o items

\* items.push(item)
PushItem(items, item) == Append(items, item)

paren_list_loop(p, which, start, items) ==
    Bind(skip_newline(p), LAMBDA q :
    Bind(peek(q), LAMBDA pk :
    Bind(Parse(which, q), LAMBDA item :
    Bind(next(skip_newline(item.p)), LAMBDA sep :
        IF ~pk.ok THEN Unclosed(pk, start, "UnclosedParen")
        ELSE IF pk.v = ")" THEN Ok(next(q).p, items)
        ELSE IF ~item.ok THEN Unclosed(item, start, "UnclosedParen")
        ELSE IF ~sep.ok THEN Unclosed(sep, start, "UnclosedParen")
        ELSE IF sep.v = ")" THEN Ok(sep.p, PushItem(items, item.v))
        ELSE IF sep.v = ","
             THEN paren_list_loop(sep.p, which, start,
                                  PushItem(items, item.v))
        ELSE Err(sep.p, ErrorNew(span(sep.p), ExpectedToken(")")))))))

parse_paren_list(p, which) ==
    Bind(try_next(p, "("), LAMBDA t :
        IF ~t.ok THEN t ELSE paren_list_loop(t.p, which, span(t.p)[1], <<>>))

BinaryOpOf(tok) ==
    CASE tok = "+"   -> "Add"
      [] tok = "-"   -> "Sub"
      [] tok = "*"   -> "Mul"
      [] tok = "/"   -> "Div"
      [] tok = "%"   -> "Mod"
      [] tok = "=="  -> "Equal"
      [] tok = "!="  -> "NotEqual"
      [] tok = ">"   -> "Greater"
      [] tok = "<"   -> "Less"
      [] tok = ">="  -> "GreaterEqual"
      [] tok = "<="  -> "LessEqual"
      [] tok = "and" -> "LogicAnd"
      [] tok = "or"  -> "LogicOr"
      [] OTHER       -> "None"

\* Option<BinaryOp>: the operator under the first or second lookahead slot,
\* consumed with one next() when there is one
parse_bin_op(p, peek_second) ==
    Bind(IF peek_second THEN peek1(p) ELSE peek(p), LAMBDA pk :
    Bind(IF pk.ok THEN BinaryOpOf(pk.v) ELSE "None", LAMBDA op :
        IF op = "None" THEN [p |-> p, v |-> "None"]
        ELSE [p |-> next(p).p, v |-> op]))

parse_bin_op_expr(p) ==
    Bind(peek_span(p)[1], LAMBDA start :
    Bind(parse_paren_expr(p), LAMBDA left :
    Bind(peek(left.p), LAMBDA pk :
    Bind(parse_bin_op(left.p, pk.v = Newline), LAMBDA op :
    Bind(parse_paren_expr(skip_newline(op.p)), LAMBDA right :
        IF ~left.ok THEN left
        ELSE IF ~pk.ok THEN pk
        ELSE IF op.v = "None" THEN left
        ELSE IF ~right.ok THEN right
        ELSE Ok(right.p, [t |-> "BinaryOp",
                          span |-> Span(start, span(right.p)[2]),
                          op |-> op.v,
                          items |-> <<left.v, right.v>>]))))))

parse_unary_op_expr(p) ==
    Bind(next(p), LAMBDA n :
    Bind(span(n.p)[1], LAMBDA start :
    Bind(parse_paren_expr(n.p), LAMBDA expr :
        IF ~n.ok THEN n
        ELSE IF n.v \notin {"-", "!"} THEN Err(n.p, ErrorToken(span(n.p)))
        ELSE IF ~expr.ok THEN expr
        ELSE Ok(expr.p, [t |-> "UnaryOp",
                         span |-> Span(start, span(expr.p)[2]),
                         op |-> IF n.v = "-" THEN "Negate" ELSE "Not",
                         expr |-> expr.v]))))

parse_paren_expr(p) ==
    Bind(peek(p), LAMBDA pk :
    LET Paren ==
            Bind(next(p).p, LAMBDA p1 :
            Bind(span(p1)[1], LAMBDA start :
            Bind(Parse("expr", p1), LAMBDA expr :
            Bind(try_next(expr.p, ")"), LAMBDA close :
                IF ~expr.ok THEN Unclosed(expr, start, "UnclosedParen")
                ELSE IF ~close.ok
                     THEN UnclosedAt(close.p, start, "UnclosedParen")
                ELSE Ok(close.p, expr.v)))))
    IN
    Bind(IF pk.v = "(" THEN Paren ELSE parse_literal_expr(p), LAMBDA left :
        IF ~pk.ok THEN pk
        ELSE IF ~left.ok THEN left
        ELSE parse_tail_expr(left.p, left.v)))

object_loop(p, start, items) ==
    Bind(skip_newline(p), LAMBDA q :
    Bind(peek(q), LAMBDA pk :
    LET Done(r, its) ==
            Ok(r, [t |-> "Object", span |-> Span(start, span(r)[2]),
                   items |-> its])
    IN
    Bind(ident(q), LAMBDA name :
    Bind(try_next(name.p, ":"), LAMBDA colon :
    Bind(Parse("expr", colon.p), LAMBDA expr :
    Bind(Append(items, [span |-> span(name.p), name |-> name.v,
                        expr |-> expr.v]), LAMBDA its :
    Bind(next(skip_newline(expr.p)), LAMBDA sep :
        IF ~pk.ok THEN Unclosed(pk, start, "UnclosedCurly")
        ELSE IF pk.v = "}" THEN Done(next(q).p, items)
        ELSE IF ~name.ok THEN name
        ELSE IF ~colon.ok THEN colon
        ELSE IF ~expr.ok THEN Unclosed(expr, start, "UnclosedCurly")
        ELSE IF ~sep.ok THEN Unclosed(sep, start, "UnclosedCurly")
        ELSE IF sep.v = "}" THEN Done(sep.p, its)
        ELSE IF sep.v = "," THEN object_loop(sep.p, start, its)
        ELSE Err(sep.p, ErrorToken(span(sep.p))))))))))

list_loop(p, start, items) ==
    Bind(skip_newline(p), LAMBDA q :
    Bind(peek(q), LAMBDA pk :
    LET Done(r, its) ==
            Ok(r, [t |-> "List", span |-> Span(start, span(r)[2]),
                   items |-> its])
    IN
    Bind(Parse("expr", q), LAMBDA expr :
    Bind(Append(items, expr.v), LAMBDA its :
    Bind(next(skip_newline(expr.p)), LAMBDA sep :
        IF ~pk.ok THEN Unclosed(pk, start, "UnclosedSquare")
        ELSE IF pk.v = "]" THEN Done(next(q).p, items)
        ELSE IF ~expr.ok THEN Unclosed(expr, start, "UnclosedSquare")
        ELSE IF ~sep.ok THEN Unclosed(sep, start, "UnclosedSquare")
        ELSE IF sep.v = "]" THEN Done(sep.p, its)
        ELSE IF sep.v = "," THEN list_loop(sep.p, start, its)
        ELSE Err(sep.p, ErrorToken(span(sep.p))))))))

parse_literal_expr(p) ==
    Bind(peek_span(p), LAMBDA start :
    Bind(next(p), LAMBDA n :
    Bind(n.p, LAMBDA q :
    LET Assoc ==
            Bind(ident(next(q).p), LAMBDA right :
                IF ~right.ok THEN right
                ELSE Ok(right.p, [t |-> "AssociatedValue",
                                  span |-> Span(start[1], span(right.p)[2]),
                                  left |-> n.v,
                                  right |-> right.v]))
        Lit(t) == Ok(q, [t |-> t, span |-> start, value |-> n.v])
    IN
        IF ~n.ok THEN n
        ELSE CASE IsIdent(n.v) ->
                    IF PeekIs(q, "::") THEN Assoc
                    ELSE Ok(q, [t |-> "Named", span |-> start, name |-> n.v])
               [] n.v \in Integers_ -> Lit("Integer")
               [] n.v \in Floats    -> Lit("Float")
               [] n.v \in Strings   -> Lit("String")
               [] n.v \in {"true", "false"} -> Lit("Bool")
               [] n.v = "{" -> object_loop(q, span(q)[1], <<>>)
               [] n.v = "[" -> list_loop(q, span(q)[1], <<>>)
               [] OTHER -> Err(q, ErrorToken(span(q))))))

-----------------------------------------------------------------------------
(* Expression parser (precedence climbing), parser/expr.rs *)

\* a panic (todo!, unreachable!, unwrap on None) ends the call abnormally
Panic(p, msg) ==
    Err(p, [err_type |-> [name |-> "panic", arg |-> msg], span |-> span(p)])

IsPanic(e) == e.err_type.name = "panic"

InfixOperators ==
    {"Add", "Sub", "Mul", "Div", "Mod", "LogicAnd", "LogicOr", "Equal",
     "NotEqual", "Greater", "Less", "GreaterEqual", "LessEqual"}

operator_type(op) ==
    CASE op \in InfixOperators    -> "Infix"
      [] op \in {"Negate", "Not"} -> "Prefix"
      [] OTHER                    -> "Postfix"

associvity(op) ==
    CASE op \in {"Negate", "Not"} -> "Right"
      [] op \in {"Equal", "NotEqual", "Greater", "Less", "GreaterEqual",
                 "LessEqual"}     -> "Paren"
      [] OTHER                    -> "Left"

base_prec(op) ==
    CASE op \in {"CallEnd", "IndexEnd", "Comma"} -> 0
      [] op = "LogicOr"                          -> 2
      [] op = "LogicAnd"                         -> 4
      [] op \in {"Equal", "NotEqual", "Greater", "Less", "GreaterEqual",
                 "LessEqual"}                    -> 6
      [] op \in {"Add", "Sub"}                   -> 8
      [] op \in {"Mul", "Div", "Mod"}            -> 10
      [] op \in {"Negate", "Not"}                -> 12
      [] op \in {"Index", "Field", "Call"}       -> 14

\* Option<usize>::None
NoPrec == -1

l_prec(op) ==
    CASE associvity(op) = "Left"  -> base_prec(op)
      [] associvity(op) = "Right" -> base_prec(op) + 1
      [] associvity(op) = "Paren" -> NoPrec

\* r_prec with the right power of a left-associative operator equal to its
\* left power
r_prec_Same(op) ==
    CASE associvity(op) = "Left"  -> base_prec(op)
      [] associvity(op) = "Right" -> base_prec(op)
      [] associvity(op) = "Paren" -> NoPrec

r_prec(op) ==
    CASE associvity(op) = "Left"  -> base_prec(op) + 1
      [] associvity(op) = "Right" -> base_prec(op)
      [] associvity(op) = "Paren" -> NoPrec

\* Option<Operator>, "None" when the next token is no operator
peek_operator(p) ==
    Bind(peek(p), LAMBDA pk :
        IF ~pk.ok THEN "None"
        ELSE CASE BinaryOpOf(pk.v) # "None" -> BinaryOpOf(pk.v)
               [] pk.v = "[" -> "Index"
               [] pk.v = "." -> "Field"
               [] pk.v = "(" -> "Call"
               [] pk.v = ")" -> "CallEnd"
               [] pk.v = "]" -> "IndexEnd"
               [] pk.v = "," -> "Comma"
               [] OTHER      -> "None")

\* ExprParser::parse_literal, an ExprItem
parse_literal(p) ==
    Bind(next(p), LAMBDA n :
    LET Item(t) == Ok(n.p, [t |-> t, span |-> span(n.p), value |-> n.v])
    IN
        IF ~n.ok THEN n
        ELSE CASE n.v \in Integers_ -> Item("ItemInteger")
               [] n.v \in Floats    -> Item("ItemFloat")
               [] n.v \in Strings   -> Item("ItemString")
               [] IsIdent(n.v)      -> Item("ItemIdent")
               [] OTHER             -> Err(n.p, ErrorToken(span(n.p))))

to_expr(item) ==
    CASE item.t = "ItemInteger" ->
            [t |-> "Integer", span |-> item.span, value |-> item.value]
      [] item.t = "ItemFloat" ->
            [t |-> "Float", span |-> item.span, value |-> item.value]
      [] item.t = "ItemString" ->
            [t |-> "String", span |-> item.span, value |-> item.value]
      [] item.t = "ItemIdent" ->
            [t |-> "Named", span |-> item.span, name |-> item.value]
      [] OTHER -> item

convert_to_bin_expr(left, op, right) ==
    [t |-> "BinaryOp",
     span |-> Span(to_expr(left).span[1], to_expr(right).span[2]),
     op |-> op,
     items |-> <<to_expr(left), to_expr(right)>>]

RECURSIVE parse_inner(_, _), pratt_loop(_, _, _), pratt_call_loop(_, _)

pratt_call_loop(p, items) ==
    Bind(peek(p), LAMBDA pk :
    Bind(parse_inner(p, 2), LAMBDA item :
    Bind(next(item.p), LAMBDA sep :
        IF ~pk.ok THEN pk
        ELSE IF pk.v = ")" THEN Ok(next(p).p, items)
        ELSE IF ~item.ok THEN item
        ELSE IF ~sep.ok THEN sep
        ELSE IF sep.v = ","
             THEN pratt_call_loop(sep.p, Append(items, to_expr(item.v)))
        ELSE IF sep.v = ")" THEN Ok(sep.p, Append(items, to_expr(item.v)))
        ELSE Err(sep.p, ErrorToken(span(sep.p))))))

pratt_loop(p, left, min_prec) ==
    Bind(peek_operator(p), LAMBDA operator :
    Bind(next(p).p, LAMBDA q :
    LET Infix ==
            Bind(parse_inner(skip_newline(q), r_prec(operator)), LAMBDA right :
                IF r_prec(operator) = NoPrec
                THEN Panic(q, "not yet implemented: Paren associvity")
                ELSE IF ~right.ok THEN right
                ELSE pratt_loop(right.p,
                                convert_to_bin_expr(left, operator, right.v),
                                min_prec))
        FieldOp ==
            Bind(ident(q), LAMBDA name :
                IF ~name.ok THEN name
                ELSE pratt_loop(name.p,
                                [t |-> "Field", span |-> span(name.p),
                                 left |-> to_expr(left), name |-> name.v],
                                min_prec))
        IndexOp ==
            Bind(span(q)[1], LAMBDA start :
            Bind(parse_inner(q, 2), LAMBDA expr :
            Bind(try_next(expr.p, "]"), LAMBDA close :
                IF ~expr.ok THEN expr
                ELSE IF ~close.ok THEN close
                ELSE pratt_loop(close.p,
                                [t |-> "Index",
                                 span |-> Span(start, span(close.p)[2]),
                                 items |-> <<to_expr(left), to_expr(expr.v)>>],
                                min_prec))))
        CallOp ==
            Bind(span(q)[1], LAMBDA start :
            Bind(pratt_call_loop(q, <<to_expr(left)>>), LAMBDA items :
                IF ~items.ok THEN items
                ELSE pratt_loop(items.p,
                                [t |-> "Call",
                                 span |-> Span(start, span(items.p)[2]),
                                 items |-> items.v],
                                min_prec)))
    IN
        IF operator = "None" THEN Ok(p, left)
        ELSE IF l_prec(operator) = NoPrec
             THEN Panic(p, "not yet implemented: Paren associvity")
        ELSE IF l_prec(operator) < min_prec THEN Ok(p, left)
        ELSE CASE operator_type(operator) = "Infix" -> Infix
               [] operator = "Field" -> FieldOp
               [] operator = "Index" -> IndexOp
               [] operator = "Call"  -> CallOp
               [] OTHER -> Panic(q, "internal error: entered unreachable code")))

parse_inner(p, min_prec) ==
    Bind(peek(p), LAMBDA pk :
    LET Unary ==
            Bind(next(p), LAMBDA n :
            Bind(IF n.v = "-" THEN "Negate" ELSE "Not", LAMBDA op :
            Bind(span(n.p)[1], LAMBDA start :
            Bind(parse_inner(n.p, r_prec(op)), LAMBDA rhs :
                IF ~rhs.ok THEN rhs
                ELSE Ok(rhs.p, [t |-> "UnaryOp",
                                span |-> Span(start, span(rhs.p)[2]),
                                op |-> op,
                                expr |-> to_expr(rhs.v)])))))
        Paren ==
            Bind(parse_inner(next(p).p, 2), LAMBDA l :
            Bind(try_next(l.p, ")"), LAMBDA close :
                IF ~l.ok THEN l
                ELSE IF ~close.ok THEN close
                ELSE Ok(close.p, l.v)))
    IN
    Bind(CASE pk.v \in Integers_ \cup Floats \cup Idents -> parse_literal(p)
           [] pk.v \in {"-", "!"} -> Unary
           [] pk.v = "("          -> Paren
           [] OTHER               -> Err(p, ErrorToken(span(p))), LAMBDA left :
        IF ~pk.ok THEN pk
        ELSE IF ~left.ok THEN left
        ELSE pratt_loop(left.p, left.v, min_prec)))

\* ExprParser::parse
ExprParser_parse(p) ==
    Bind(parse_inner(p, 2), LAMBDA r :
        IF r.ok THEN Ok(r.p, to_expr(r.v)) ELSE r)

-----------------------------------------------------------------------------
(* The machines beside the parser, as their constructors leave them *)

\* SlotMap::new()
SlotMapNew == [inner |-> <<>>, free |-> <<>>]

\* ScopeStack::new(): no variable, one open scope
ScopeStackNew == [vars |-> [sym \in {} |-> <<>>], scopes |-> <<{}>>]

\* ModuleBuilder::new(); `constants` is the length of the constant list
ModuleBuilderNew == [code |-> <<>>, constants |-> 0]

MachinesNew ==
    /\ slot_map = SlotMapNew
    /\ scopes = ScopeStackNew
    /\ module = ModuleBuilderNew

-----------------------------------------------------------------------------
(* The program: a parser is built over a source, then either parse_file or *)
(* the expression parser is run on it                                      *)

\* longest source of the exhaustive family
MaxLen == 3

\* most members in a generated class body
MaxMembers == 3

\* most arguments in a generated call
MaxArgs == 2

MaxUnits == 2

Alphabet == {"a", "(", ")", "{", "}", "[", "]", "class", "if", Newline}

RECURSIVE SeqsUpTo(_, _)
SeqsUpTo(S, n) ==
    IF n = 0 THEN {<<>>}
    ELSE LET shorter == SeqsUpTo(S, n - 1)
         IN  shorter \cup {Append(s, x) : s \in shorter, x \in S}

\* the parts of a list joined by a separator
RECURSIVE Join(_, _)
Join(parts, sep) ==
    IF parts = <<>> THEN <<>>
    ELSE IF Len(parts) = 1 THEN parts[1]
    ELSE parts[1] \o sep \o Join(Tail(parts), sep)

ExhaustiveSources == SeqsUpTo(Alphabet, MaxLen)

\* `pre ( e` and nothing more: a group whose `)` is missing at end of input
ParenPrefixes ==
    {<<>>, <<"print">>, <<"let", "x", "=">>, <<"a", "+">>, <<"f", "(">>,
     <<"if">>, <<"{", "a", ":">>, <<"[">>, <<"-">>}

CompleteExprs ==
    {<<"1", "+", "2">>, <<"1">>, <<"a">>, <<"a", ".", "b">>,
     <<"f", "(", "a", ")">>, <<"-", "a">>, <<"a", "[", "1", "]">>,
     <<"[", "1", ",", "2", "]">>, <<"(", "a", ")">>, <<"copy", "a">>,
     <<"{", "a", ":", "1", "}">>, <<"a", "+", "(", "b", ")">>,
     <<"a", "(", "b", ")", ".", "c">>, <<"1", "+", "2", Newline>>}

ParenSources ==
    {pre \o <<"(">> \o e : pre \in ParenPrefixes, e \in CompleteExprs}

\* statements that do not end in a block, and what may follow them
SimpleStmts ==
    {<<"print", "x">>, <<"let", "y", "=", "3">>, <<"var", "y">>,
     <<"let", "mut", "y">>, <<"const", "c", "=", "1">>,
     <<"set", "a", "=", "1">>, <<"set", "a", ".", "b", "=", "x">>,
     <<"break">>, <<"continue">>, <<"return">>, <<"return", "a">>,
     <<"delete", "x">>, <<"x">>, <<"f", "(", "x", ")">>,
     <<"print", "1", "+", "2">>, <<"print", "-", "x">>}

StmtTerminators == {<<>>, <<Newline>>, <<";">>}

StmtIntruders == {<<"print">>, <<")">>, <<"}">>, <<"a">>}

StmtSources ==
    {st \o f : st \in SimpleStmts, f \in StmtTerminators \cup StmtIntruders}

\* statements that end in a block, and what may follow them
BlockStmts ==
    {<<"if", "c", "{", "}">>,
     <<"if", "c", "{", "}", "else", "{", "}">>,
     <<"if", "c", "{", "}", "else", "if", "a", "{", "}">>,
     <<"while", "c", "{", "}">>,
     <<"function", "f", "(", ")", "{", "}">>,
     <<"class", "C", "{", "}">>}

BlockFollowers == {<<>>, <<Newline>>, <<"print", "x", Newline>>}

BlockStmtSources == {st \o f : st \in BlockStmts, f \in BlockFollowers}

\* classes: a body of up to MaxMembers members
ClassMembers ==
    {<<"let", "x">>,
     <<"constructor", "(", ")", "{", "}">>,
     <<"constructor", "(", "a", ")", "{", "}">>,
     <<"f", "(", ")", "{", "}">>,
     <<"function", "f", "(", ")", "{", "}">>}

RECURSIVE ListsUpTo(_, _)
ListsUpTo(S, n) ==
    IF n = 0 THEN {<<>>}
    ELSE LET shorter == ListsUpTo(S, n - 1)
         IN  shorter \cup {Append(l, x) : l \in shorter, x \in S}

ClassBodies ==
    {Join(ms, sep) : ms \in ListsUpTo(ClassMembers, MaxMembers),
                     sep \in {<<Newline>>, <<";">>}}

ClassFollowers ==
    {<<>>, <<Newline>>, <<Newline, ")">>,
     <<Newline, "class", "C", "{", "let", "x", "}">>}

ClassSources ==
    {pre \o <<"class", "C", "{">> \o body \o <<"}">> \o post :
        pre \in {<<>>, <<"pub">>}, body \in ClassBodies,
        post \in ClassFollowers}

\* postfix calls `L(args)` ending a line
CallLefts ==
    {<<"x", ".", "f">>, <<"x">>, <<"x", ".", "f", ".", "a">>,
     <<"(", "x", ")">>, <<"(", "x", ".", "f", ")">>,
     <<"x", "[", "1", "]">>, <<"1">>, <<"f", "(", ")">>,
     <<"x", ".", "f", "(", ")">>, <<"C", "::", "a">>, <<"[", "1", "]">>}

ArgExprs == {<<"y">>, <<"1">>, <<"a", ".", "b">>, <<"b", "+", "1">>}

ArgLists == ListsUpTo(ArgExprs, MaxArgs)

CallSources ==
    {l \o <<"(">> \o Join(args, <<",">>) \o <<")", Newline>> :
        l \in CallLefts, args \in ArgLists}

\* two infix operators between three operands
InfixTokens ==
    {"+", "-", "*", "/", "%", "==", "!=", ">", "<", ">=", "<=", "and", "or"}

PrattSources ==
    {<<"1", op1, "2", op2, "3">> : op1 \in InfixTokens, op2 \in InfixTokens}

\* a prefix operator before an operand that an infix or a postfix operator
\* follows
UnaryTokens == {"-", "!"}

PostfixTails == {<<".", "b">>, <<"(", ")">>, <<"[", "1", "]">>}

UnarySources ==
    {<<u, "a", op, "b">> : u \in UnaryTokens, op \in InfixTokens}
    \cup {<<u, "a">> \o t : u \in UnaryTokens, t \in PostfixTails}

\* one comparison, a chain of two, and a chain with the first one grouped
ComparisonTokens == {"==", "!=", ">", "<", ">=", "<="}

ComparisonSources ==
    {<<"a", c, "b">> : c \in ComparisonTokens}
    \cup {<<"a", c1, "b", c2, "c">> :
              c1 \in ComparisonTokens, c2 \in ComparisonTokens}
    \cup {<<"(", "a", c1, "b", ")", c2, "c">> :
              c1 \in ComparisonTokens, c2 \in ComparisonTokens}

\* an operand, an optional line break, and an infix operator or another
\* statement
BreakSources ==
    {<<"a">> \o br \o <<op, "b", Newline>> :
        br \in {<<>>, <<Newline>>}, op \in InfixTokens}
    \cup {<<"a", Newline, "b", Newline>>}

\* an expression, a line break, and a continuation of the expression or
\* another statement
TailLefts ==
    {<<"x">>, <<"x", ".", "a">>, <<"x", "(", ")">>, <<"x", "[", "1", "]">>}

DotTails == {<<".", "f", "(", ")">>, <<".", "f">>, <<".", "f", "[", "1", "]">>}

OtherTails == {<<"(", "y", ")">>, <<"[", "1", "]">>, <<"y">>}

TailSources ==
    {l \o br \o t \o <<Newline>> :
        l \in TailLefts, br \in {<<>>, <<Newline>>},
        t \in DotTails \cup OtherTails}

\* the call `f(args)` with or without a comma after the last argument and
\* with or without line breaks around the arguments
Trailing == {<<>>, <<",">>}

Breaks == {<<>>, <<Newline>>}

ListSource(args, trail, br) ==
    <<"f", "(">> \o br \o Join(args, br \o <<",">> \o br) \o trail \o br
    \o <<")", Newline>>

ListSources ==
    {ListSource(args, trail, br) :
        args \in ArgLists, trail \in Trailing, br \in Breaks}

\* a statement whose expression has two infix operators
OperandPrefixes ==
    {<<"print">>, <<"let", "x", "=">>, <<"var", "x", "=">>,
     <<"const", "c", "=">>, <<"set", "a", "=">>, <<"return">>, <<>>}

ArithmeticTokens == {"+", "-", "*"}

OperandSources ==
    {pre \o <<"1", op1, "2", op2, "3", Newline>> :
        pre \in OperandPrefixes, op1 \in ArithmeticTokens,
        op2 \in ArithmeticTokens}
    \cup {<<"let", "x", "=", "a", "-", "b", "-", "c", Newline>>}

\* a text the lexer cannot read at one place, after a prefix that is the
\* start of a program
MarkerPrefixes ==
    {<<>>, <<"x">>, <<"print">>, <<"x", ".">>, <<"let">>, <<"x", Newline>>,
     <<"x", "+">>, <<"f", "(">>, <<"if", "c", "{">>, <<"x", ";">>}

MarkerFollowers == {<<>>, <<Newline>>, <<"y", Newline>>}

MarkerSources ==
    {pre \o <<LexError>> \o post :
        pre \in MarkerPrefixes, post \in MarkerFollowers}

\* programs of up to MaxUnits statements that define functions, one after
\* another and one inside another
FunctionUnits ==
    {<<"function", "f", "(", ")", "{", "}">>,
     <<"function", "f", "(", ")", "{",
          "function", "a", "(", ")", "{", "}", "}">>,
     <<"function", "f", "(", ")", "{",
          "function", "a", "(", ")", "{",
              "function", "b", "(", ")", "{", "}", "}", Newline,
          "function", "c", "(", ")", "{", "}", "}">>,
     <<"if", "c", "{", "function", "a", "(", ")", "{", "}", "}",
       "else", "{", "function", "b", "(", ")", "{", "}", "}">>,
     <<"class", "C", "{", "f", "(", ")", "{", "}", Newline,
          "constructor", "(", ")", "{",
              "function", "a", "(", ")", "{", "}", "}", "}">>}

FunctionSources ==
    {Join(us, <<Newline>>) \o <<Newline>> :
        us \in ListsUpTo(FunctionUnits, MaxUnits)}

Sources ==
    ExhaustiveSources \cup ParenSources \cup StmtSources
    \cup BlockStmtSources \cup ClassSources \cup CallSources
    \cup PrattSources \cup UnarySources \cup ComparisonSources
    \cup BreakSources \cup TailSources \cup ListSources
    \cup OperandSources \cup MarkerSources \cup FunctionSources

Init ==
    /\ source \in Sources
    /\ parser = ParserNew(source)
    /\ pc = "ready"
    /\ result = NoneV
    /\ MachinesNew

ParseFile ==
    /\ pc = "ready"
    /\ LET r == parse_file(parser)
       IN  /\ parser' = r.p
           /\ result' = [ok |-> r.ok, v |-> r.v]
    /\ pc' = "file_done"
    /\ UNCHANGED source
    /\ UNCHANGED machines

ExprParse ==
    /\ pc = "ready"
    /\ LET r == ExprParser_parse(parser)
       IN  /\ parser' = r.p
           /\ result' = [ok |-> r.ok, v |-> r.v]
    /\ pc' = "expr_done"
    /\ UNCHANGED source
    /\ UNCHANGED machines

Next == ParseFile \/ ExprParse

Spec == Init /\ [][Next]_vars

-----------------------------------------------------------------------------
(* parse_file, one iteration of its statement loop at a time *)

\* let mut items = Vec::new(); self.skip_newline();
StartFile ==
    /\ pc = "ready"
    /\ parser' = skip_newline(parser)
    /\ result' = [ok |-> TRUE, v |-> <<>>]
    /\ pc' = "loop"
    /\ UNCHANGED source
    /\ UNCHANGED machines

\* while !self.at_eof() { items.push(self.parse_stmt()?); self.skip_newline(); }
StmtStep ==
    /\ pc = "loop"
    /\ ~at_eof(parser)
    /\ LET b == parse_file_loop_body(parser, result.v)
       IN  /\ parser' = b.p
           /\ result' = [ok |-> b.ok, v |-> b.v]
           /\ pc' = IF b.ok THEN "loop" ELSE "file_done"
    /\ UNCHANGED source
    /\ UNCHANGED machines

\* return Ok(items);
EndFile ==
    /\ pc = "loop"
    /\ at_eof(parser)
    /\ pc' = "file_done"
    /\ UNCHANGED <<source, parser, result>>
    /\ UNCHANGED machines

NextSteps == StartFile \/ StmtStep \/ EndFile

\* the guard of StmtStep: the step is defined, and changes the state,
\* wherever the guard holds
StmtStepEnabled == pc = "loop" /\ ~at_eof(parser)

\* WF_vars(StmtStep) with ENABLED <<StmtStep>>_vars written as its guard
FairStmtStep == []<>(~StmtStepEnabled) \/ []<><<StmtStep>>_vars

\* a call of parse_file keeps running until it returns
SpecSteps ==
    /\ Init
    /\ [][NextSteps]_vars
    /\ WF_vars(StartFile)
    /\ FairStmtStep
    /\ WF_vars(EndFile)

-----------------------------------------------------------------------------
(* Reading the source and the tree *)

Items == parser.lexer.items

Openers == {"(", "[", "{"}

OpenerOf(t) == CASE t = ")" -> "(" [] t = "]" -> "[" [] t = "}" -> "{"

\* indices of the brackets of toks still open after token i - 1, innermost last
RECURSIVE OpenFrom(_, _, _)
OpenFrom(toks, i, stack) ==
    IF i > Len(toks) THEN stack
    ELSE IF toks[i] \in Openers
         THEN OpenFrom(toks, i + 1, Append(stack, i))
    ELSE IF /\ toks[i] \in {")", "]", "}"}
            /\ stack # <<>>
            /\ toks[stack[Len(stack)]] = OpenerOf(toks[i])
         THEN OpenFrom(toks, i + 1, SubSeq(stack, 1, Len(stack) - 1))
    ELSE OpenFrom(toks, i + 1, stack)

OpenBrackets(toks) == OpenFrom(toks, 1, <<>>)

FileDone == pc = "file_done"

IndicesOf(toks, tok) ==
    SelectSeq([i \in 1..Len(toks) |-> i], LAMBDA i : toks[i] = tok)

\* index of the first tok after index i
FirstAfter(toks, i, tok) ==
    CHOOSE j \in (i + 1)..Len(toks) :
        toks[j] = tok /\ \A k \in (i + 1)..(j - 1) : toks[k] # tok

RECURSIVE CloseFrom(_, _, _)
CloseFrom(toks, j, depth) ==
    IF j > Len(toks) THEN 0
    ELSE IF toks[j] \in Openers THEN CloseFrom(toks, j + 1, depth + 1)
    ELSE IF toks[j] \in {")", "]", "}"}
         THEN IF depth = 1 THEN j ELSE CloseFrom(toks, j + 1, depth - 1)
    ELSE CloseFrom(toks, j + 1, depth)

\* index of the bracket that closes the bracket opened at index i
MatchClose(toks, i) == CloseFrom(toks, i + 1, 1)

\* the span from the token at index i to the end of the first `{...}` after it
BlockSpanFrom(i) ==
    Span(Items[i].span[1],
         Items[MatchClose(source, FirstAfter(source, i, "{"))].span[2])

Failed(err_name) == ~result.ok /\ result.v.err_type.name = err_name

StmtKind(first) ==
    CASE first = "if"       -> "If"
      [] first = "while"    -> "WhileLoop"
      [] first = "function" -> "FunctionStmt"
      [] first = "class"    -> "Class"

-----------------------------------------------------------------------------
(* C1: an end of input met inside an open bracket is never reported as a   *)
(* bare UnexpectedEOF: when parse_file fails with UnexpectedEOF, no        *)
(* bracket of the source is open at its end.                               *)
C1_NoBareEOFInsideBracket ==
    (FileDone /\ Failed("UnexpectedEOF")) => OpenBrackets(source) = <<>>

(* C3: a statement that does not end in a block parses when a line break,  *)
(* a `;` or the end of input follows it, and fails with LineEnding when    *)
(* another token follows it.                                               *)
C3_StatementTermination ==
    \A st \in SimpleStmts :
        /\ \A f \in StmtTerminators :
              (FileDone /\ source = st \o f)
                  => (result.ok /\ Len(result.v) = 1)
        /\ \A f \in StmtIntruders :
              (FileDone /\ source = st \o f /\ st # <<"return">>)
                  => Failed("LineEnding")

(* C4: a statement that ends in a block needs no terminator: it parses     *)
(* whether a line break, another statement or the end of input follows.    *)
C4_BlockNeedsNoTerminator ==
    \A st \in BlockStmts, f \in BlockFollowers :
        (FileDone /\ source = st \o f)
            => /\ result.ok
               /\ Len(result.v) = (IF Len(f) > 1 THEN 2 ELSE 1)
               /\ result.v[1].t = StmtKind(st[1])

(* C2: a parenthesized group whose inner expression is complete and whose *)
(* `)` is missing at the end of input fails with exactly one diagnostic,   *)
(* UnclosedParen, whose span starts at the group's `(`.                    *)
C2_UnclosedParenAtOpen ==
    \A pre \in ParenPrefixes, e \in CompleteExprs :
        (FileDone /\ source = pre \o <<"(">> \o e)
            => /\ Failed("UnclosedParen")
               /\ result.v.span[1] = Items[Len(pre) + 1].span[1]
               /\ parser.non_fatal_errors = <<>>

C2_Witness ==
    /\ FileDone
    /\ source = <<"(", "1", "+", "2">>
    /\ Failed("UnclosedParen")
    /\ result.v.span[1] = 0

-----------------------------------------------------------------------------
NonFatalKinds ==
    {"TooManyParams", "TooManyArgs", "ConstructorRedefined",
     "ConstructorRequired"}

NonFatal(err_name) ==
    SelectSeq(parser.non_fatal_errors, LAMBDA e : e.err_type.name = err_name)

C6_FailureDiscardsState ==
    (FileDone /\ ~result.ok)
        => /\ "err_type" \in DOMAIN result.v
           /\ parser.non_fatal_errors = <<>>

-----------------------------------------------------------------------------
(* Classes of a successful parse, read against the tokens of the source *)

Classes == SelectSeq(result.v, LAMBDA st : st.t = "Class")

ClassToks == IndicesOf(source, "class")

\* every `class` of the source is a top-level statement of the tree
ClassesParsed == FileDone /\ result.ok /\ Len(Classes) = Len(ClassToks)

\* the spans of the constructors written in the body of the k-th class
ConstructorSpans(k) ==
    LET inside == SelectSeq(IndicesOf(source, "constructor"),
                            LAMBDA i : /\ ClassToks[k] < i
                                       /\ i < MatchClose(source, ClassToks[k] + 2))
    IN  [j \in DOMAIN inside |-> BlockSpanFrom(inside[j])]

GoodClassSources ==
    {pre \o <<"class", "C", "{">> \o body \o <<"}">> \o post :
        pre \in {<<>>, <<"pub">>}, body \in ClassBodies,
        post \in ClassFollowers \ {<<Newline, ")">>}}

(* C7: a class with at least one field and no constructor parses and       *)
(* records exactly one non-fatal ConstructorRequired whose span is the     *)
(* whole class, from `class` to the closing `}`; any other class records   *)
(* none.                                                                   *)
C7_ConstructorRequired ==
    /\ (FileDone /\ source \in GoodClassSources) => result.ok
    /\ ClassesParsed =>
          LET need == SelectSeq(Classes,
                          LAMBDA c : c.fields # <<>> /\ c.constructor.t = "None")
              req  == NonFatal("ConstructorRequired")
          IN  /\ Len(req) = Len(need)
              /\ \A k \in DOMAIN req :
                    /\ "span" \in DOMAIN req[k]
                    /\ req[k].span = need[k].span
              /\ \A k \in DOMAIN Classes :
                    Classes[k].span = BlockSpanFrom(ClassToks[k])

C7_Witness ==
    /\ FileDone
    /\ source = <<"class", "C", "{", "let", "x", "}">>
    /\ result.ok
    /\ Len(NonFatal("ConstructorRequired")) = 1

\* the (first, second) pairs of the redefinitions of classes k, k + 1, ...
RECURSIVE ExpectedRedefs(_)
ExpectedRedefs(k) ==
    IF k > Len(ClassToks) THEN <<>>
    ELSE LET spans == ConstructorSpans(k)
         IN  [j \in 1..(Len(spans) - 1) |-> <<spans[j], spans[j + 1]>>]
             \o ExpectedRedefs(k + 1)

(* C8: a class body with n >= 2 constructors parses, records n - 1         *)
(* non-fatal ConstructorRedefined diagnostics, each with first = the span  *)
(* of the preceding constructor and second = the span of the new one, and  *)
(* the class keeps the last constructor.                                   *)
C8_ConstructorRedefined ==
    ClassesParsed =>
        LET redefs == NonFatal("ConstructorRedefined")
        IN  /\ [j \in DOMAIN redefs |-> <<redefs[j].first, redefs[j].second>>]
                  = ExpectedRedefs(1)
            /\ \A k \in DOMAIN Classes :
                  LET spans == ConstructorSpans(k)
                  IN  IF spans = <<>>
                      THEN Classes[k].constructor.t = "None"
                      ELSE /\ Classes[k].constructor.t = "Function"
                           /\ Classes[k].constructor.span = spans[Len(spans)]

C8_Witness ==
    /\ FileDone
    /\ result.ok
    /\ Len(NonFatal("ConstructorRedefined")) >= 2

-----------------------------------------------------------------------------
(* Expression trees without their spans *)

RECURSIVE Strip(_)
Strip(e) ==
    LET StripAll(es) == [i \in DOMAIN es |-> Strip(es[i])]
    IN  CASE e.t \in {"Named", "Copy"} -> [t |-> e.t, name |-> e.name]
          [] e.t \in {"Integer", "Float", "String", "Bool"} ->
                [t |-> e.t, value |-> e.value]
          [] e.t = "BinaryOp" ->
                [t |-> e.t, op |-> e.op, items |-> StripAll(e.items)]
          [] e.t = "UnaryOp" -> [t |-> e.t, op |-> e.op, expr |-> Strip(e.expr)]
          [] e.t = "Field" -> [t |-> e.t, left |-> Strip(e.left), name |-> e.name]
          [] e.t \in {"Index", "Call", "List"} ->
                [t |-> e.t, items |-> StripAll(e.items)]
          [] e.t \in {"MethodCall", "AssociatedCall"} ->
                [t |-> e.t, name |-> e.name, items |-> StripAll(e.items)]
          [] e.t = "AssociatedValue" ->
                [t |-> e.t, left |-> e.left, right |-> e.right]
          [] e.t = "Ref" -> [t |-> e.t, var_type |-> e.var_type, name |-> e.name]
          [] e.t = "Object" ->
                [t |-> e.t,
                 items |-> [i \in DOMAIN e.items |->
                               [name |-> e.items[i].name,
                                expr |-> Strip(e.items[i].expr)]]]

\* the expression of the one-line source `toks`, parsed on its own
ExprOf(toks) == Strip(parse_file(ParserNew(toks \o <<Newline>>)).v[1].expr)

N(name) == [t |-> "Named", name |-> name]

I(value) == [t |-> "Integer", value |-> value]

Bin(op, l, r) == [t |-> "BinaryOp", op |-> op, items |-> <<l, r>>]

(* C9: the node built for a postfix call `L(args)` depends only on the     *)
(* shape of L: a field access r.m gives MethodCall(m, [r] ++ args), a bare *)
(* name n gives AssociatedCall(n, args), anything else gives               *)
(* Call([L] ++ args).                                                      *)
C9_CallShape ==
    /\ \A l \in CallLefts, args \in ArgLists :
          (/\ FileDone
           /\ source = l \o <<"(">> \o Join(args, <<",">>) \o <<")", Newline>>)
              => /\ result.ok
                 /\ Len(result.v) = 1
                 /\ result.v[1].t = "Expression"
                 /\ LET left  == ExprOf(l)
                        items == [i \in DOMAIN args |-> ExprOf(args[i])]
                        call  == Strip(result.v[1].expr)
                    IN  CASE left.t = "Field" ->
                                call = [t |-> "MethodCall", name |-> left.name,
                                        items |-> <<left.left>> \o items]
                          [] left.t = "Named" ->
                                call = [t |-> "AssociatedCall",
                                        name |-> left.name, items |-> items]
                          [] OTHER ->
                                call = [t |-> "Call",
                                        items |-> <<left>> \o items]
    /\ (FileDone /\ source = <<"x", ".", "f", "(", "y", ")", Newline>>)
          => /\ result.ok
             /\ Strip(result.v[1].expr)
                  = [t |-> "MethodCall", name |-> "f",
                     items |-> <<N("x"), N("y")>>]

C9_Witness ==
    /\ FileDone
    /\ source = <<"x", ".", "f", "(", "y", ")", Newline>>
    /\ result.ok
    /\ result.v[1].expr.t = "MethodCall"

-----------------------------------------------------------------------------
\* the precedence level of an infix operator token, in the order
\* or < and < comparison < additive < multiplicative
Level(tok) ==
    CASE tok = "or"  -> 1
      [] tok = "and" -> 2
      [] tok \in {"==", "!=", ">", "<", ">=", "<="} -> 3
      [] tok \in {"+", "-"} -> 4
      [] tok \in {"*", "/", "%"} -> 5

(* C10: the precedence-climbing parser gives the higher-precedence infix   *)
(* operator the tighter binding whatever the textual order:                *)
(* `1 op1 2 op2 3` is op1(1, op2(2, 3)) when op2 is of a higher level and  *)
(* op2(op1(1, 2), 3) when op1 is.                                          *)
C10_PrecedenceClimbing ==
    \A op1 \in InfixTokens, op2 \in InfixTokens :
        (/\ pc = "expr_done"
         /\ source = <<"1", op1, "2", op2, "3">>
         /\ Level(op1) # Level(op2))
            => /\ result.ok
               /\ Strip(result.v) =
                    IF Level(op1) < Level(op2)
                    THEN Bin(BinaryOpOf(op1), I("1"),
                             Bin(BinaryOpOf(op2), I("2"), I("3")))
                    ELSE Bin(BinaryOpOf(op2),
                             Bin(BinaryOpOf(op1), I("1"), I("2")), I("3"))

-----------------------------------------------------------------------------
Un(op, e) == [t |-> "UnaryOp", op |-> op, expr |-> e]

UnaryOpOf(tok) == IF tok = "-" THEN "Negate" ELSE "Not"

(* C11: in the expression parser a prefix operator binds tighter than      *)
(* every binary operator and looser than a postfix one: `u a op b` is      *)
(* op(u(a), b) for every infix operator op, `-a + b` is Add(Negate(a), b), *)
(* and `-a.b` is Negate(Field(a, b)).                                      *)
C11_UnaryBinding ==
    /\ \A u \in UnaryTokens, op \in InfixTokens :
          (pc = "expr_done" /\ source = <<u, "a", op, "b">>)
              => /\ result.ok
                 /\ Strip(result.v)
                      = Bin(BinaryOpOf(op), Un(UnaryOpOf(u), N("a")), N("b"))
    /\ \A u \in UnaryTokens, t \in PostfixTails :
          (pc = "expr_done" /\ source = <<u, "a">> \o t)
              => /\ result.ok
                 /\ Strip(result.v).t = "UnaryOp"
                 /\ Strip(result.v).expr.t \in {"Field", "Call", "Index"}
    /\ (pc = "expr_done" /\ source = <<"-", "a", ".", "b">>)
          => /\ result.ok
             /\ Strip(result.v)
                  = Un("Negate", [t |-> "Field", left |-> N("a"), name |-> "b"])

-----------------------------------------------------------------------------
(* C12: the comparison operators are non-associative in the expression     *)
(* parser: a single comparison `a < b` and the grouped `(a < b) < c` are   *)
(* accepted and give binary nodes, and the chain `a < b < c` is rejected   *)
(* with a parse diagnostic.                                                *)
C12_ComparisonNonAssociative ==
    \A c1 \in ComparisonTokens, c2 \in ComparisonTokens :
        /\ (pc = "expr_done" /\ source = <<"a", c1, "b">>)
              => /\ result.ok
                 /\ Strip(result.v) = Bin(BinaryOpOf(c1), N("a"), N("b"))
        /\ (pc = "expr_done" /\ source = <<"(", "a", c1, "b", ")", c2, "c">>)
              => /\ result.ok
                 /\ Strip(result.v)
                      = Bin(BinaryOpOf(c2),
                            Bin(BinaryOpOf(c1), N("a"), N("b")), N("c"))
        /\ (pc = "expr_done" /\ source = <<"a", c1, "b", c2, "c">>)
              => /\ ~result.ok
                 /\ ~IsPanic(result.v)

-----------------------------------------------------------------------------
(* C13: in parse_bin_op_expr a line break between an operand and an infix  *)
(* operator is skipped, `a`, line break, `+ b` giving the same             *)
(* BinaryOp(Add, a, b) as `a + b`; when the token after the break is not   *)
(* an infix operator the expression ends and the break is left to end the  *)
(* statement.                                                              *)
C13_BreakBeforeOperator ==
    /\ \A op \in InfixTokens :
          (FileDone /\ source \in {<<"a", Newline, op, "b", Newline>>,
                                   <<"a", op, "b", Newline>>})
              => /\ result.ok
                 /\ Len(result.v) = 1
                 /\ result.v[1].t = "Expression"
                 /\ Strip(result.v[1].expr)
                      = Bin(BinaryOpOf(op), N("a"), N("b"))
    /\ (FileDone /\ source = <<"a", Newline, "b", Newline>>)
          => /\ result.ok
             /\ Len(result.v) = 2
             /\ Strip(result.v[1].expr) = N("a")
             /\ Strip(result.v[2].expr) = N("b")

-----------------------------------------------------------------------------
(* C14: a line break before a continuing `.` is skipped, `x`, line break,  *)
(* `.f()` giving the same tree (spans aside) as `x.f()`; parse_tail_expr   *)
(* consumes a line break only when the token after it is `.`, so before    *)
(* any other token the break ends the statement.                           *)
C14_BreakBeforeDot ==
    /\ \A l \in TailLefts, t \in DotTails :
          (FileDone /\ source = l \o <<Newline>> \o t \o <<Newline>>)
              => /\ result.ok
                 /\ Len(result.v) = 1
                 /\ result.v[1].t = "Expression"
                 /\ Strip(result.v[1].expr) = ExprOf(l \o t)
    /\ \A l \in TailLefts, t \in OtherTails :
          (FileDone /\ source = l \o <<Newline>> \o t \o <<Newline>>)
              => /\ result.ok
                 /\ Len(result.v) = 2
                 /\ Strip(result.v[1].expr) = ExprOf(l)
                 /\ Strip(result.v[2].expr) = ExprOf(t)

C14_Witness ==
    /\ FileDone
    /\ source = <<"x", Newline, ".", "f", "(", ")", Newline>>
    /\ result.ok
    /\ Strip(result.v[1].expr)
         = [t |-> "MethodCall", name |-> "f", items |-> <<N("x")>>]

-----------------------------------------------------------------------------
-----------------------------------------------------------------------------
\* the expression a statement node carries
OperandOf(stmt) ==
    IF "expr" \in DOMAIN stmt THEN stmt.expr ELSE stmt.data

(* C16: an expression in the operand position of a statement is parsed     *)
(* with the full operator grammar: a statement whose expression has two    *)
(* infix operators parses and carries the precedence-respecting tree,      *)
(* `print 1 + 2 * 3` giving Add(1, Mul(2, 3)) and `let x = a - b - c`      *)
(* giving Sub(Sub(a, b), c).                                               *)
C16_FullGrammarInStatements ==
    /\ \A pre \in OperandPrefixes :
        \A op1 \in ArithmeticTokens, op2 \in ArithmeticTokens :
          (FileDone /\ source = pre \o <<"1", op1, "2", op2, "3", Newline>>)
              => /\ result.ok
                 /\ Len(result.v) = 1
                 /\ Strip(OperandOf(result.v[1])) =
                      IF Level(op1) < Level(op2)
                      THEN Bin(BinaryOpOf(op1), I("1"),
                               Bin(BinaryOpOf(op2), I("2"), I("3")))
                      ELSE Bin(BinaryOpOf(op2),
                               Bin(BinaryOpOf(op1), I("1"), I("2")), I("3"))
    /\ (FileDone
           /\ source = <<"let", "x", "=", "a", "-", "b", "-", "c", Newline>>)
          => /\ result.ok
             /\ Strip(OperandOf(result.v[1]))
                  = Bin("Sub", Bin("Sub", N("a"), N("b")), N("c"))

-----------------------------------------------------------------------------
\* the child nodes of an expression node
Children(e) ==
    CASE e.t \in {"BinaryOp", "Index", "Call", "List", "MethodCall",
                  "AssociatedCall"} -> e.items
      [] e.t = "UnaryOp" -> <<e.expr>>
      [] e.t = "Field"   -> <<e.left>>
      [] e.t = "Object"  -> [i \in DOMAIN e.items |-> e.items[i].expr]
      [] OTHER           -> <<>>

\* every node of the tree contains the spans of its children
RECURSIVE SpansNest(_)
SpansNest(e) ==
    \A i \in DOMAIN Children(e) :
        /\ e.span[1] <= Children(e)[i].span[1]
        /\ Children(e)[i].span[2] <= e.span[2]
        /\ SpansNest(Children(e)[i])

\* the expressions the top-level statements of a parsed file carry
TopExprs ==
    {OperandOf(result.v[i]) :
        i \in {j \in DOMAIN result.v :
                  /\ DOMAIN result.v[j] \cap {"expr", "data"} # {}
                  /\ "span" \in DOMAIN OperandOf(result.v[j])}}

(* C17: in every tree the parser returns the span of a composite node      *)
(* contains the span of each of its children, a Field, Index, Call or      *)
(* MethodCall node containing its left operand or receiver.                *)
C17_SpansContainChildren ==
    /\ (FileDone /\ result.ok) => \A e \in TopExprs : SpansNest(e)
    /\ (pc = "expr_done" /\ result.ok /\ "span" \in DOMAIN result.v)
          => SpansNest(result.v)

-----------------------------------------------------------------------------
(* C18: a lexical-error marker at position i of the token stream is        *)
(* reported as UnexpectedToken when the cursor consumes position i, and    *)
(* the diagnostic is anchored at the span of position i; a marker that     *)
(* only sits in the lookahead buffer produces no diagnostic.               *)
C18_LexErrorOnConsumption ==
    \A pre \in MarkerPrefixes, post \in MarkerFollowers :
        (FileDone /\ source = pre \o <<LexError>> \o post)
            => /\ Failed("UnexpectedToken")
               /\ result.v.span = Items[Len(pre) + 1].span
               /\ span(parser) = Items[Len(pre) + 1].span

-----------------------------------------------------------------------------
\* the functions of a statement, block or function node: the id of each
\* and the end of its span, which is where its parsing completed
RECURSIVE Functions(_)
Functions(n) ==
    LET All(ns) == UNION {Functions(ns[i]) : i \in DOMAIN ns}
    IN  CASE n.t = "Function" ->
                {[id |-> n.id, end |-> n.span[2]]} \cup Functions(n.body)
          [] n.t = "Block"        -> All(n.body)
          [] n.t = "FunctionStmt" -> Functions(n.func)
          [] n.t = "Class" ->
                All(n.methods) \cup All(n.associated)
                \cup Functions(n.constructor)
          [] n.t = "If" ->
                UNION {Functions(n.conditions[i].block) :
                          i \in DOMAIN n.conditions}
                \cup Functions(n.default)
          [] n.t = "WhileLoop"    -> Functions(n.body)
          [] OTHER                -> {}

TreeFunctions == UNION {Functions(result.v[i]) : i \in DOMAIN result.v}

(* C19: every function of a parse has an id no other function of the tree  *)
(* has, and the ids follow the order in which the functions complete: the  *)
(* k-th function to complete has id k-1, so that the ids handed out are    *)
(* exactly 0..n-1 for the n functions parsed (all of them in the tree      *)
(* unless a redefined constructor was dropped).                            *)
C19_SequentialFunctionIds ==
    (FileDone /\ result.ok)
        => /\ \A f \in TreeFunctions, g \in TreeFunctions :
                /\ (f.id = g.id) => (f = g)
                /\ (f.end < g.end) <=> (f.id < g.id)
           /\ \A f \in TreeFunctions : f.id \in 0..(parser.func_count - 1)
           /\ NonFatal("ConstructorRedefined") = <<>>
                => /\ Cardinality(TreeFunctions) = parser.func_count
                   /\ {f.id : f \in TreeFunctions}
                        = 0..(Cardinality(TreeFunctions) - 1)

C19_Witness ==
    /\ FileDone
    /\ result.ok
    /\ Cardinality(TreeFunctions) >= 4
    /\ \E i \in DOMAIN result.v :
          /\ result.v[i].t = "FunctionStmt"
          /\ result.v[i].func.id >= 2
          /\ Functions(result.v[i].func.body) # {}

-----------------------------------------------------------------------------
\* the number of tokens next() has returned: those pulled from the lexer
\* less those still waiting in the lookahead buffer
Cursor(p) ==
    p.lexer.pos - Cardinality({i \in 1..2 : p.lookahead[i] # None})

(* C20: parse_file terminates on every token sequence and never            *)
(* backtracks: the cursor never moves back and the token stream is never   *)
(* re-read, every iteration of the statement loop that does not leave the  *)
(* loop consumes at least one token, a successful parse has consumed each  *)
(* token of the input exactly once, and the call reaches its return (each  *)
(* iteration running the block, list and tail-expression loops inside it   *)
(* to their end).                                                          *)
C20_TerminatesWithoutBacktracking ==
    /\ [][/\ Cursor(parser') >= Cursor(parser)
          /\ parser'.lexer.items = parser.lexer.items]_vars
    /\ [][(pc = "loop" /\ pc' = "loop") =>
              Cursor(parser') > Cursor(parser)]_vars
    /\ [](Cursor(parser) \in 0..Len(source))
    /\ []((pc = "file_done" /\ result.ok) =>
              /\ Cursor(parser) = Len(source)
              /\ result.v = parse_file(ParserNew(source)).v)
    /\ <>(pc = "file_done")

C20_Witness ==
    /\ pc = "file_done"
    /\ result.ok
    /\ Len(result.v) >= 2
    /\ Cursor(parser) = Len(source)
    /\ Len(source) >= 10

-----------------------------------------------------------------------------
(* Pretty-printing of expressions, src/src/ast.rs, and the round trip       *)
(* through the parser of the root crate, src/src/parser.rs.  That parser's  *)
(* parse_expr is the one modelled above but for three arms: a call always   *)
(* builds Call([callee] ++ args), and there is no `::` and no object        *)
(* literal; RoundTripSources has no call on a name or a field, so on these  *)
(* sources the two parsers are the same code.  A printed text is held as    *)
(* the sequence of the tokens the lexer reads in it.                        *)

is_literal(e) ==
    e.t \in {"Named", "String", "Float", "Integer", "Bool", "List", "Object"}

is_trailing_expr(e) == e.t \in {"Field", "Call", "Index"}

\* the order in which the interner met the names
SymbolOrder == <<"a", "b", "c", "f", "x", "y", "C">>

\* write!(f, "<{:?}>", sym): the Debug form of the symbol between angle
\* brackets, `<SymbolU32 { value: n }>`
Placeholder(sym) ==
    <<"<", "SymbolU32", "{", "value", ":",
      ToString(CHOOSE i \in DOMAIN SymbolOrder : SymbolOrder[i] = sym),
      "}", ">">>

BinaryOpText(op) ==
    CASE op = "Add"          -> "+"
      [] op = "Sub"          -> "-"
      [] op = "Mul"          -> "*"
      [] op = "Div"          -> "/"
      [] op = "Mod"          -> "%"
      [] op = "Equal"        -> "=="
      [] op = "NotEqual"     -> "!="
      [] op = "Greater"      -> ">"
      [] op = "Less"         -> "<"
      [] op = "GreaterEqual" -> ">="
      [] op = "LessEqual"    -> "<="
      [] op = "LogicAnd"     -> "and"
      [] op = "LogicOr"      -> "or"

UnaryOpText(op) == IF op = "Negate" THEN "-" ELSE "!"

\* Display for Permissions
PermissionsText(perms) ==
    (IF Contains(perms, PUBLIC)
     THEN <<"pub">>
          \o (IF /\ Contains(perms, PUBLIC_MUTABLE)
                 /\ Contains(perms, PUBLIC_REASSIGN)
              THEN <<"(", "var", "mut", ")">>
              ELSE IF Contains(perms, PUBLIC_MUTABLE) THEN <<"(", "mut", ")">>
              ELSE IF Contains(perms, PUBLIC_REASSIGN) THEN <<"(", "var", ")">>
              ELSE <<>>)
     ELSE <<>>)
    \o (IF Contains(perms, MUTATE) THEN <<"mut">> ELSE <<>>)
    \o (IF Contains(perms, REASSIGN) THEN <<"var">> ELSE <<"let">>)

\* Display for Expr, `{}` (not the alternate form).  An integer or a bool
\* prints as the numeral or the keyword it was read from.
RECURSIVE Fmt(_)
Fmt(e) ==
    LET Paren(x) == <<"(">> \o Fmt(x) \o <<")">>
        Lit(x) == IF is_literal(x) THEN Fmt(x) ELSE Paren(x)
        Left(x) ==
            IF is_literal(x) \/ is_trailing_expr(x) THEN Fmt(x) ELSE Paren(x)
        All(es) == Join([i \in DOMAIN es |-> Fmt(es[i])], <<",">>)
    IN  CASE e.t = "Copy"  -> <<"copy">> \o Placeholder(e.name)
          [] e.t = "Named" -> Placeholder(e.name)
          [] e.t \in {"Integer", "Float", "Bool"} -> <<e.value>>
          [] e.t = "Ref" ->
                <<"ref">> \o PermissionsText(e.var_type) \o Placeholder(e.name)
          [] e.t = "List" -> <<"[">> \o All(e.items) \o <<"]">>
          [] e.t = "Index" ->
                Fmt(e.items[1]) \o <<"[">> \o Fmt(e.items[2]) \o <<"]">>
          [] e.t = "BinaryOp" ->
                Lit(e.items[1]) \o <<BinaryOpText(e.op)>> \o Lit(e.items[2])
          [] e.t = "UnaryOp" -> <<UnaryOpText(e.op)>> \o Lit(e.expr)
          [] e.t = "Field" -> Left(e.left) \o <<".">> \o Placeholder(e.name)
          [] e.t = "Call" ->
                Left(e.items[1]) \o <<"(">> \o All(Tail(e.items)) \o <<")">>

RoundTripAtoms ==
    {<<"x">>, <<"1">>, <<"true">>, <<"[", "1", ",", "2", "]">>,
     <<"[", "]">>, <<"copy", "x">>, <<"ref", "var", "x">>,
     <<"ref", "let", "mut", "x">>, <<"(", "1", "+", "2", ")">>,
     <<"(", "1", "<", "2", ")">>}

RoundTripTails ==
    {<<>>, <<".", "a">>, <<"[", "1", "]">>, <<"(", "2", ")">>,
     <<"(", "1", ",", "y", ")">>, <<"(", ")", "[", "2", "]">>}

RoundTripOperators ==
    {<<>>, <<"+", "1">>, <<"*", "y">>, <<"-", "(", "2", "-", "3", ")">>}

\* one expression on a line, with no call on a name or a field
RoundTripSources ==
    {pre \o a \o t \o o \o <<Newline>> :
        pre \in {<<>>, <<"-">>, <<"!">>},
        a \in {x \in RoundTripAtoms : x[1] \notin {"copy", "ref"}},
        t \in {x \in RoundTripTails : x = <<>> \/ x[1] # "("},
        o \in RoundTripOperators}
    \cup {a \o t \o o \o <<Newline>> :
            a \in {x \in RoundTripAtoms : x[1] \notin Idents \cup {"copy", "ref"}},
            t \in {x \in RoundTripTails : x # <<>> /\ x[1] = "("},
            o \in RoundTripOperators}
    \cup {a \o o \o <<Newline>> :
            a \in {x \in RoundTripAtoms : x[1] \in {"copy", "ref"}},
            o \in RoundTripOperators}

InitRoundTrip ==
    /\ source \in RoundTripSources
    /\ parser = ParserNew(source)
    /\ pc = "ready"
    /\ result = NoneV
    /\ MachinesNew

\* parser.parse_expr() on the text
ParseText ==
    /\ pc = "ready"
    /\ Bind(Parse("expr", parser), LAMBDA r :
          /\ parser' = r.p
          /\ result' = [ok |-> r.ok, v |-> r.v])
    /\ pc' = "parsed"
    /\ UNCHANGED source
    /\ UNCHANGED machines

\* format!("{}", expr): the printed text takes the place of the source, on
\* a line of its own, and a parser is built over it
PrintExpr ==
    /\ pc = "parsed"
    /\ result.ok
    /\ source' = Fmt(result.v) \o <<Newline>>
    /\ parser' = ParserNew(source')
    /\ pc' = "printed"
    /\ UNCHANGED result
    /\ UNCHANGED machines

\* parser.parse_expr() on the printed text
ParsePrinted ==
    /\ pc = "printed"
    /\ Bind(Parse("expr", parser), LAMBDA r :
          /\ parser' = r.p
          /\ result' = [ok |-> r.ok, v |-> r.v, original |-> result.v])
    /\ pc' = "reparsed"
    /\ UNCHANGED source
    /\ UNCHANGED machines

NextRoundTrip == ParseText \/ PrintExpr \/ ParsePrinted

SpecRoundTrip == InitRoundTrip /\ [][NextRoundTrip]_vars

(* C21: printing an expression the parser produced and parsing the printed *)
(* text gives the same tree again, spans aside.                            *)
C21_PrintParseRoundTrip ==
    (pc = "reparsed")
        => /\ result.ok
           /\ Strip(result.v) = Strip(result.original)

-----------------------------------------------------------------------------
(* The permissions of declarations *)

PublicityPrefixes ==
    {<<>>, <<"pub">>, <<"pub", "(", "var", ")">>, <<"pub", "(", "mut", ")">>,
     <<"pub", "(", "var", "mut", ")">>, <<"pub", "(", "let", ")">>,
     <<"pub", "(", "var">>, <<"pub", "(", "mut", "var", ")">>,
     <<"pub", "(", ")">>}

PublicityMembers ==
    {<<"f", "(", "var", "a", ")", "{", "}">>,
     <<"mut", "f", "(", ")", "{", "}">>,
     <<"function", "f", "(", "mut", "a", ",", "var", "mut", "b", ")",
       "{", "}">>,
     <<"constructor", "(", ")", "{", "}">>}

PublicitySources ==
    {pre \o <<"function", "f", "(", "mut", "a", ",", "b", ")", "{",
              "var", "mut", "x", "=", "1", "}", Newline>> :
        pre \in PublicityPrefixes}
    \cup {pre \o <<"let", "x", "=", "1", Newline>> : pre \in PublicityPrefixes}
    \cup {pre \o <<"class", "C", "{", "var", "mut", "x", Newline>> \o inner
              \o m \o <<"}", Newline>> :
            pre \in PublicityPrefixes, inner \in PublicityPrefixes,
            m \in PublicityMembers}

InitPublicity ==
    /\ source \in PublicitySources
    /\ parser = ParserNew(source)
    /\ pc = "ready"
    /\ result = NoneV
    /\ MachinesNew

\* parser.parse_publicity() at the start of the source
ParsePublicity ==
    /\ pc = "ready"
    /\ LET r == parse_publicity(parser)
       IN  /\ parser' = r.p
           /\ result' = [ok |-> r.ok, v |-> r.v]
    /\ pc' = "publicity_done"
    /\ UNCHANGED source
    /\ UNCHANGED machines

NextPublicity == ParseFile \/ ParsePublicity

SpecPublicity == InitPublicity /\ [][NextPublicity]_vars

\* the Permissions values of a statement, block or function node
RECURSIVE PermissionsIn(_)
PermissionsIn(n) ==
    LET All(ns) == UNION {PermissionsIn(ns[i]) : i \in DOMAIN ns}
    IN  CASE n.t = "Function" ->
                {n.permissions}
                \cup {n.params[i].var_type : i \in DOMAIN n.params}
                \cup PermissionsIn(n.body)
          [] n.t = "Block"        -> All(n.body)
          [] n.t = "FunctionStmt" -> PermissionsIn(n.func)
          [] n.t = "Class" ->
                {n.permissions}
                \cup {n.fields[i].var_type : i \in DOMAIN n.fields}
                \cup All(n.methods) \cup All(n.associated)
                \cup PermissionsIn(n.constructor)
          [] n.t = "If" ->
                UNION {PermissionsIn(n.conditions[i].block) :
                          i \in DOMAIN n.conditions}
                \cup PermissionsIn(n.default)
          [] n.t = "WhileLoop"    -> PermissionsIn(n.body)
          [] n.t = "CreateVar"    -> {n.var_type}
          [] OTHER                -> {}

TreePermissions == UNION {PermissionsIn(result.v[i]) : i \in DOMAIN result.v}

\* the bits only PUBLIC_MUTABLE and PUBLIC_REASSIGN set
PublicOnlyBits ==
    (PUBLIC_MUTABLE \cup PUBLIC_REASSIGN)
        \ (PUBLIC \cup IS_VARIABLE \cup REASSIGN \cup MUTATE)

(* C22: a permission set of the tree that holds PUBLIC_MUTABLE or          *)
(* PUBLIC_REASSIGN, or any bit only these two flags set, holds PUBLIC; and *)
(* parse_publicity returns Some(perms) only for a perms that holds PUBLIC. *)
C22_PublicBitImplied ==
    /\ (FileDone /\ result.ok)
          => \A perms \in TreePermissions :
                (\/ Contains(perms, PUBLIC_MUTABLE)
                 \/ Contains(perms, PUBLIC_REASSIGN)
                 \/ perms \cap PublicOnlyBits # {})
                    => Contains(perms, PUBLIC)
    /\ (pc = "publicity_done" /\ result.ok /\ result.v.t = "Some")
          => Contains(result.v.v, PUBLIC)

C22_Witness ==
    /\ FileDone
    /\ result.ok
    /\ \E perms \in TreePermissions :
          Contains(perms, PUBLIC_MUTABLE) /\ ~Contains(perms, PUBLIC_REASSIGN)
    /\ \E perms \in TreePermissions :
          Contains(perms, PUBLIC_REASSIGN) /\ ~Contains(perms, PUBLIC_MUTABLE)
    /\ \E perms \in TreePermissions : perms \cap PublicOnlyBits = {}

-----------------------------------------------------------------------------
(* SlotMap, test_lang/src/static_analysis/utils.rs.  The source of its     *)
(* specification is the list of the calls still to make; a key is its id,  *)
(* a slot of `inner` is NoneV or Some(data).  A failed assert! or an index  *)
(* out of bounds ends the run.                                             *)

\* most calls in a run
MaxCalls == 3

SlotData == {"d1", "d2"}

SlotKeys == {0, 1}

SlotCalls ==
    {[op |-> "insert", data |-> d] : d \in SlotData}
    \cup {[op |-> o, key |-> k] : o \in {"get", "remove"}, k \in SlotKeys}

Returned(call, v) == [call |-> call, ok |-> TRUE, v |-> v]

Panicked(call, msg) == [call |-> call, ok |-> FALSE, v |-> msg]

\* assert!(id < self.inner.len()); assert!(self.inner[id].is_some());
ValidKey(map, id) == id < Len(map.inner) /\ map.inner[id + 1] # NoneV

\* self.free.pop().unwrap_or(K::from_id(self.inner.len()))
InsertKey(map) ==
    IF map.free # <<>> THEN map.free[Len(map.free)] ELSE Len(map.inner)

InitSlotMap ==
    /\ source \in ListsUpTo(SlotCalls, MaxCalls)
    /\ slot_map = SlotMapNew
    /\ pc = "ready"
    /\ result = NoneV
    /\ parser = ParserNew(<<>>)
    /\ scopes = ScopeStackNew
    /\ module = ModuleBuilderNew

\* SlotMap::insert
Insert ==
    /\ pc = "ready"
    /\ source # <<>>
    /\ Head(source).op = "insert"
    /\ LET key == InsertKey(slot_map)
           popped == IF slot_map.free # <<>>
                     THEN SubSeq(slot_map.free, 1, Len(slot_map.free) - 1)
                     ELSE slot_map.free
       IN  IF key < Len(slot_map.inner)
           THEN /\ slot_map' = [inner |-> [slot_map.inner EXCEPT
                                              ![key + 1] = Some(Head(source).data)],
                                free |-> popped]
                /\ result' = Returned(Head(source), key)
                /\ pc' = "ready"
           ELSE /\ slot_map' = [slot_map EXCEPT !.free = popped]
                /\ result' = Panicked(Head(source), "index out of bounds")
                /\ pc' = "panicked"
    /\ source' = Tail(source)
    /\ UNCHANGED <<parser, scopes, module>>

\* SlotMap::get
Get ==
    /\ pc = "ready"
    /\ source # <<>>
    /\ Head(source).op = "get"
    /\ IF ValidKey(slot_map, Head(source).key)
       THEN /\ result' = Returned(Head(source),
                                  slot_map.inner[Head(source).key + 1].v)
            /\ pc' = "ready"
       ELSE /\ result' = Panicked(Head(source), "assertion failed")
            /\ pc' = "panicked"
    /\ source' = Tail(source)
    /\ UNCHANGED <<slot_map, parser, scopes, module>>

\* SlotMap::remove
Remove ==
    /\ pc = "ready"
    /\ source # <<>>
    /\ Head(source).op = "remove"
    /\ IF ValidKey(slot_map, Head(source).key)
       THEN /\ slot_map' = [slot_map EXCEPT
                               !.inner[Head(source).key + 1] = NoneV]
            /\ result' = Returned(Head(source),
                                  slot_map.inner[Head(source).key + 1].v)
            /\ pc' = "ready"
       ELSE /\ slot_map' = slot_map
            /\ result' = Panicked(Head(source), "assertion failed")
            /\ pc' = "panicked"
    /\ source' = Tail(source)
    /\ UNCHANGED <<parser, scopes, module>>

NextSlotMap == Insert \/ Get \/ Remove

SpecSlotMap == InitSlotMap /\ [][NextSlotMap]_vars

\* the last call was `op`
Called(op) == result # NoneV /\ result.call.op = op

(* C23: insert(d) returns a key under which the map holds d, on an empty   *)
(* map too, and the insert that follows remove(k) returns k.               *)
C23_InsertReusesKeys ==
    /\ [](Called("insert")
            => /\ result.ok
               /\ ValidKey(slot_map, result.v)
               /\ slot_map.inner[result.v + 1] = Some(result.call.data))
    /\ [][(Called("remove") /\ result.ok /\ Head(source).op = "insert")
              => (result'.ok /\ result'.v = result.call.key)]_vars

-----------------------------------------------------------------------------
Operators ==
    InfixOperators
    \cup {"Negate", "Not", "Index", "Field", "Call", "CallEnd", "IndexEnd",
          "Comma"}

(* C24: the binding powers of an operator of precedence p are (p, p + 1)   *)
(* when it is left-associative, (p + 1, p) when it is right-associative    *)
(* (the prefix operators) and none when it is non-associative; so two      *)
(* left-associative infix operators of one level group to the left:        *)
(* `1 op1 2 op2 3` is op2(op1(1, 2), 3), `1 - 2 - 3` is Sub(Sub(1, 2), 3)   *)
(* and `1 - 2 + 3` is Add(Sub(1, 2), 3).                                   *)
C24_BindingPowers ==
    /\ \A op \in Operators :
          <<l_prec(op), r_prec(op)>> =
             CASE associvity(op) = "Left" ->
                      <<base_prec(op), base_prec(op) + 1>>
               [] associvity(op) = "Right" ->
                      <<base_prec(op) + 1, base_prec(op)>>
               [] associvity(op) = "Paren" -> <<NoPrec, NoPrec>>
    /\ \A op \in Operators :
          /\ (associvity(op) = "Right") <=> (operator_type(op) = "Prefix")
          /\ (associvity(op) = "Paren")
                <=> (op \in {"Equal", "NotEqual", "Greater", "Less",
                             "GreaterEqual", "LessEqual"})
    /\ \A op1 \in InfixTokens, op2 \in InfixTokens :
          (/\ pc = "expr_done"
           /\ source = <<"1", op1, "2", op2, "3">>
           /\ Level(op1) = Level(op2)
           /\ associvity(BinaryOpOf(op1)) = "Left")
              => /\ result.ok
                 /\ Strip(result.v) =
                      Bin(BinaryOpOf(op2),
                          Bin(BinaryOpOf(op1), I("1"), I("2")), I("3"))
    /\ (pc = "expr_done" /\ source = <<"1", "-", "2", "-", "3">>)
          => Strip(result.v) = Bin("Sub", Bin("Sub", I("1"), I("2")), I("3"))
    /\ (pc = "expr_done" /\ source = <<"1", "-", "2", "+", "3">>)
          => Strip(result.v) = Bin("Add", Bin("Sub", I("1"), I("2")), I("3"))

C24_Witness ==
    /\ pc = "expr_done"
    /\ source = <<"1", "-", "2", "+", "3">>
    /\ result.ok
    /\ result.v.t = "BinaryOp"
    /\ result.v.op = "Add"

-----------------------------------------------------------------------------
(* The token cursor on its own: next() and try_next() called any number of *)
(* times on a parser over a short source                                   *)

\* most advances past the end of the source
MaxOverrun == 2

CursorTokens == {"a", ")", LexError}

CursorSources == ListsUpTo(CursorTokens, MaxLen)

ExpectedTokens == {"a", ")"}

\* the number of elements consumed so far
Advances == IF result = NoneV THEN 0 ELSE result.k

InitCursor ==
    /\ source \in CursorSources
    /\ parser = ParserNew(source)
    /\ pc = "ready"
    /\ result = NoneV
    /\ MachinesNew

\* parser.next()
Advance ==
    /\ Advances < Len(source) + MaxOverrun
    /\ LET r == next(parser)
       IN  /\ parser' = r.p
           /\ result' = [call |-> "next", tok |-> None, ok |-> r.ok,
                         v |-> r.v, k |-> Advances + 1]
    /\ UNCHANGED <<source, pc>>
    /\ UNCHANGED machines

\* parser.try_next(tok)
Expect ==
    /\ Advances < Len(source) + MaxOverrun
    /\ \E tok \in ExpectedTokens :
          LET r == try_next(parser, tok)
          IN  /\ parser' = r.p
              /\ result' = [call |-> "try_next", tok |-> tok, ok |-> r.ok,
                            v |-> r.v,
                            k |-> IF r.ok THEN Advances + 1 ELSE Advances]
    /\ UNCHANGED <<source, pc>>
    /\ UNCHANGED machines

NextCursor == Advance \/ Expect

SpecCursor == InitCursor /\ [][NextCursor]_vars

\* the i-th element of the token stream: an item of the lexer, then the end
\* of the input, with the empty span at the end of the source
Element(i) ==
    IF i <= Len(Items) THEN Items[i]
    ELSE [tok |-> None, span |-> Span(parser.lexer.len, parser.lexer.len)]

(* C25: after Parser::new and k advances the lookahead slots hold the      *)
(* elements k+1 and k+2 of the token stream, the three spans are those of  *)
(* element k (0..0 before the first advance), k+1 and k+2, and the k-th    *)
(* call of next returned element k: the token, UnexpectedToken at the span *)
(* of a lexical error, or UnexpectedEOF at the end of the source.          *)
C25_CursorWindow ==
    LET k == Advances
    IN  /\ parser.lookahead = <<Element(k + 1).tok, Element(k + 2).tok>>
        /\ parser.spans = <<IF k = 0 THEN Span(0, 0) ELSE Element(k).span,
                            Element(k + 1).span, Element(k + 2).span>>
        /\ (result # NoneV /\ result.call = "next")
              => CASE Element(k).tok = None ->
                        ~result.ok /\ result.v = ErrorEof(Element(k).span)
                   [] Element(k).tok = LexError ->
                        ~result.ok /\ result.v = ErrorToken(Element(k).span)
                   [] OTHER -> result.ok /\ result.v = Element(k).tok

C25_Witness ==
    /\ Advances = 3
    /\ Len(source) = 3
    /\ source[2] = LexError
    /\ result.call = "next"
    /\ result.ok
    /\ parser.lookahead = <<None, None>>

(* C26: try_next(tok) consumes exactly one token and succeeds when the     *)
(* next token is tok; otherwise it leaves the parser as it was and fails   *)
(* with ExpectedToken(tok) at the span of the next token.                  *)
C26_ExpectExactly ==
    [][\A tok \in ExpectedTokens :
          (result'.call = "try_next" /\ result'.tok = tok)
             => IF parser.lookahead[1] = tok
                THEN /\ result'.ok
                     /\ parser' = next(parser).p
                     /\ result'.k = Advances + 1
                ELSE /\ ~result'.ok
                     /\ parser' = parser
                     /\ result'.v
                          = ErrorNew(peek_span(parser), ExpectedToken(tok))]_vars

-----------------------------------------------------------------------------
(* The scope stack of the tree-walking interpreter, src/tree_walk.rs, and  *)
(* the statements and expressions that act on it.  `vars` is the map from  *)
(* a symbol to its list of states, `scopes` the list of the sets of        *)
(* symbols the open scopes declare.  A state keeps its var_type, whether   *)
(* it is taken (`taken` is Some), takeable, and its data (NoneV for None). *)
(* A call returns the stack after it, Ok or Err with the payload, and      *)
(* whether it panicked.                                                    *)

\* most open scopes
MaxScopes == 2

\* most names in the path of a `set`
MaxPath == 3

Symbols == {"x"}

FieldNames == {"b", "c"}

Integer1 == [t |-> "Integer", v |-> 1]

StringS == [t |-> "String", v |-> "s"]

\* Data::None
DataNone == [t |-> "None", v |-> 0]

DataValues == {Integer1, StringS}

is_copy(data) == data.t \in {"Bool", "Integer", "Float", "FunctionPtr", "None"}

Last(seq) == seq[Len(seq)]

Front(seq) == SubSeq(seq, 1, Len(seq) - 1)

ScopeOk(s, v) == [s |-> s, ok |-> TRUE, v |-> v, panic |-> FALSE]

ScopeErr(s, e) == [s |-> s, ok |-> FALSE, v |-> e, panic |-> FALSE]

ScopePanic(s) == [s |-> s, ok |-> FALSE, v |-> "panic", panic |-> TRUE]

push_scope(s) == [s EXCEPT !.scopes = Append(@, {})]

\* drop_scope: the states of the variables of the popped scope are popped
\* (Vec::pop on an empty list does nothing, unwrap on a missing key panics)
drop_scope(s) ==
    LET dropped == Last(s.scopes)
    IN  IF s.scopes = <<>> THEN ScopeOk(s, Unit)
        ELSE IF \E sym \in dropped : sym \notin DOMAIN s.vars
             THEN ScopePanic(s)
        ELSE ScopeOk([vars |-> [sym \in DOMAIN s.vars |->
                                   IF sym \in dropped /\ s.vars[sym] # <<>>
                                   THEN Front(s.vars[sym])
                                   ELSE s.vars[sym]],
                      scopes |-> Front(s.scopes)], Unit)

push_var(s, sym, state) ==
    IF s.scopes = <<>> THEN ScopePanic(s)
    ELSE IF sym \in Last(s.scopes) THEN ScopeErr(s, "VarExistsInScope")
    ELSE ScopeOk([vars |-> [y \in DOMAIN s.vars \cup {sym} |->
                               IF y # sym THEN s.vars[y]
                               ELSE IF sym \in DOMAIN s.vars /\ s.vars[sym] # <<>>
                                    THEN IF Last(s.vars[sym]).taken
                                         THEN Append(Front(s.vars[sym]), state)
                                         ELSE Append(s.vars[sym], state)
                                    ELSE <<state>>],
                  scopes |-> [s.scopes EXCEPT ![Len(s.scopes)] = @ \cup {sym}]],
                 Unit)

\* the loop of remove_undefined over the scopes, innermost first, and the
\* removal of the key that follows it
RECURSIVE remove_undefined_loop(_, _, _)
remove_undefined_loop(s, sym, i) ==
    IF i = 0
    THEN ScopeOk([s EXCEPT !.vars = [y \in DOMAIN s.vars \ {sym} |-> s.vars[y]]],
                 Unit)
    ELSE IF sym \notin s.scopes[i] THEN remove_undefined_loop(s, sym, i - 1)
    ELSE IF s.vars[sym] = <<>> THEN ScopePanic(s)
    ELSE IF Last(s.vars[sym]).taken
         THEN remove_undefined_loop(
                  [vars |-> [s.vars EXCEPT ![sym] = Front(@)],
                   scopes |-> [s.scopes EXCEPT ![i] = @ \ {sym}]], sym, i - 1)
    ELSE ScopeOk(s, Unit)

remove_undefined(s, sym) ==
    IF sym \notin DOMAIN s.vars THEN ScopeOk(s, Unit)
    ELSE IF s.vars[sym] = <<>> THEN ScopePanic(s)
    ELSE IF ~Last(s.vars[sym]).taken THEN ScopeOk(s, Unit)
    ELSE remove_undefined_loop(s, sym, Len(s.scopes))

\* the part of take_var after its first remove_undefined
take_var_rest(s, sym) ==
    LET last == Last(s.vars[sym])
        moved == [s EXCEPT !.vars[sym][Len(s.vars[sym])] =
                      [last EXCEPT !.data = NoneV, !.taken = TRUE]]
        cleaned == remove_undefined(moved, sym)
    IN  IF sym \notin DOMAIN s.vars THEN ScopeErr(s, "VarDoesNotExist")
        ELSE IF s.vars[sym] = <<>> THEN ScopePanic(s)
        ELSE IF ~last.takeable
             THEN IF last.data = NoneV THEN ScopePanic(s)
                  ELSE ScopeOk(s, last.data)
        ELSE IF last.data = NoneV THEN ScopeErr(s, "VarUndefined")
        ELSE IF is_copy(last.data) THEN ScopeOk(s, last.data)
        ELSE IF Contains(last.var_type, REASSIGN) THEN ScopeOk(moved, last.data)
        ELSE IF cleaned.panic THEN cleaned
        ELSE ScopeOk(cleaned.s, last.data)

take_var(s, sym) ==
    IF remove_undefined(s, sym).panic THEN remove_undefined(s, sym)
    ELSE take_var_rest(remove_undefined(s, sym).s, sym)

copy_var(s, sym) ==
    LET r == remove_undefined(s, sym)
    IN  IF r.panic THEN r
        ELSE IF sym \notin DOMAIN r.s.vars THEN ScopeErr(r.s, "VarDoesNotExist")
        ELSE IF r.s.vars[sym] = <<>> THEN ScopePanic(r.s)
        ELSE IF Last(r.s.vars[sym]).data = NoneV
             THEN ScopeErr(r.s, "VarUndefined")
        ELSE ScopeOk(r.s, Last(r.s.vars[sym]).data)

\* ScopeStack::get_mut_reassign: Ok means the reference to the data of the
\* last state of sym, which now holds a value
get_mut_reassign(s, sym) ==
    LET state == Last(s.vars[sym])
    IN  IF sym \notin DOMAIN s.vars THEN ScopeErr(s, "VarDoesNotExist")
        ELSE IF s.vars[sym] = <<>> THEN ScopePanic(s)
        ELSE IF state.data = NoneV \/ Contains(state.var_type, REASSIGN)
             THEN ScopeOk([s EXCEPT !.vars[sym][Len(s.vars[sym])] =
                              [state EXCEPT
                                  !.taken = FALSE,
                                  !.data = IF @ = NoneV THEN DataNone ELSE @]],
                          Unit)
        ELSE ScopeErr(s, "CannotReassign")

\* Data::get_mut_mutate and Data::get_mut_reassign: "Ok" when the field sym
\* of data exists and its var_type holds perm, the error otherwise
DataField(data, sym, perm) ==
    IF data.t \notin {"Object", "Class"} THEN "TypeHasNoFields"
    ELSE IF sym \notin DOMAIN data.inner THEN "NoField"
    ELSE IF Contains(data.inner[sym].var_type, perm) THEN "Ok"
    ELSE IF perm = MUTATE THEN "CannotMutate" ELSE "CannotReassign"

\* the data with the value at the end of the field path replaced by v
RECURSIVE AssignAt(_, _, _)
AssignAt(data, path, v) ==
    IF path = <<>> THEN v
    ELSE [data EXCEPT !.inner[path[1]].data = AssignAt(@, Tail(path), v)]

\* the data at the end of the field path
RECURSIVE DataAt(_, _)
DataAt(data, path) ==
    IF path = <<>> THEN data ELSE DataAt(data.inner[path[1]].data, Tail(path))

\* the names of left[1..(left.len() - 2)] of the SetVar arm, 0-based and end
\* exclusive as in the source; the slice panics when it starts after its end
SetVarMiddle(left) == SubSeq(left, 2, Len(left) - 2)

\* the descent of the SetVar arm from the data of the variable through the
\* names `names` with get_mut_mutate: the path reached or the error
RECURSIVE Descend(_, _, _)
Descend(data, names, path) ==
    IF names = <<>> THEN [ok |-> TRUE, v |-> path]
    ELSE IF DataField(DataAt(data, path), names[1], MUTATE) # "Ok"
         THEN [ok |-> FALSE,
               v |-> DataField(DataAt(data, path), names[1], MUTATE)]
    ELSE Descend(data, Tail(names), Append(path, names[1]))

\* Stmt::SetVar of interpret_stmt, the data already evaluated
set_var(s, left, data) ==
    LET first == get_mut_reassign(s, left[1])
        root == Last(first.s.vars[left[1]]).data
        middle == Descend(root, SetVarMiddle(left), <<>>)
        last == DataField(DataAt(root, middle.v), Last(left), REASSIGN)
        Store(path) ==
            [first.s EXCEPT !.vars[left[1]][Len(first.s.vars[left[1]])].data =
                AssignAt(root, path, data)]
    IN  IF ~first.ok THEN first
        ELSE IF Len(left) < 2 THEN ScopeOk(Store(<<>>), Unit)
        ELSE IF 1 > Len(left) - 2 THEN ScopePanic(first.s)
        ELSE IF ~middle.ok THEN ScopeErr(first.s, middle.v)
        ELSE IF last # "Ok" THEN ScopeErr(first.s, last)
        ELSE ScopeOk(Store(Append(middle.v, Last(left))), Unit)

VarState(var_type, takeable, data) ==
    [var_type |-> var_type, taken |-> FALSE, takeable |-> takeable,
     data |-> data]

InitInterpreter ==
    /\ scopes = ScopeStackNew
    /\ pc = "ready"
    /\ result = NoneV
    /\ source = <<>>
    /\ parser = ParserNew(<<>>)
    /\ slot_map = SlotMapNew
    /\ module = ModuleBuilderNew

\* the state after a call of the interpreter on the scope stack: left is
\* the path of names the call was made on and data the value it was given
Outcome(call, left, data, r) ==
    /\ scopes' = r.s
    /\ result' = [call |-> call, left |-> left, data |-> data, ok |-> r.ok,
                  v |-> IF r.ok THEN r.v ELSE [t |-> "Error", v |-> r.v]]
    /\ pc' = IF r.panic THEN "panicked" ELSE "ready"
    /\ UNCHANGED <<source, parser, slot_map, module>>

\* interpret_block: self.scope().push_scope()
PushScope ==
    /\ pc = "ready"
    /\ Len(scopes.scopes) < MaxScopes
    /\ Outcome("push_scope", <<>>, DataNone, ScopeOk(push_scope(scopes), Unit))

\* interpret_block: self.scope().drop_scope()
DropScope ==
    /\ pc = "ready"
    /\ Len(scopes.scopes) >= 2
    /\ Outcome("drop_scope", <<>>, DataNone, drop_scope(scopes))

\* Stmt::CreateVar
CreateVar ==
    /\ pc = "ready"
    /\ \E sym \in Symbols, var_type \in {IS_VARIABLE, REASSIGN},
          data \in DataValues \cup {NoneV} :
          Outcome("push_var", <<sym>>, data,
                  push_var(scopes, sym, VarState(var_type, TRUE, data)))

\* Stmt::CreateConst
CreateConst ==
    /\ pc = "ready"
    /\ \E sym \in Symbols, data \in DataValues :
          Outcome("push_var", <<sym>>, data,
                  push_var(scopes, sym, VarState(PermEmpty, FALSE, data)))

\* Expr::Named and Stmt::DeleteVar
ReadVar ==
    /\ pc = "ready"
    /\ \E sym \in Symbols : Outcome("take_var", <<sym>>, DataNone, take_var(scopes, sym))

\* Expr::Copy
CopyVar ==
    /\ pc = "ready"
    /\ \E sym \in Symbols : Outcome("copy_var", <<sym>>, DataNone, copy_var(scopes, sym))

\* Stmt::SetVar
SetVar ==
    /\ pc = "ready"
    /\ \E sym \in Symbols, fields \in ListsUpTo(FieldNames, MaxPath - 1),
          data \in DataValues :
          Outcome("set_var", <<sym>> \o fields, data,
                  set_var(scopes, <<sym>> \o fields, data))

NextInterpreter ==
    \/ PushScope \/ DropScope \/ CreateVar \/ CreateConst
    \/ ReadVar \/ CopyVar \/ SetVar

SpecInterpreter == InitInterpreter /\ [][NextInterpreter]_vars

\* the open scopes that declare sym
Declaring(sym) == {i \in DOMAIN scopes.scopes : sym \in scopes.scopes[i]}

(* C27: after any sequence of calls every symbol of `vars` has a list of   *)
(* states that is not empty and holds one state for each open scope that   *)
(* declares the symbol, and no call on the scope stack panics.             *)
C27_ScopeStackConsistent ==
    /\ (pc = "panicked") => (result.call = "set_var")
    /\ (pc = "ready")
          => \A sym \in DOMAIN scopes.vars :
                /\ scopes.vars[sym] # <<>>
                /\ Len(scopes.vars[sym]) = Cardinality(Declaring(sym))

(* C28: `set a.b1. ... .bn = v` never panics; when it succeeds the value    *)
(* at the end of the whole path is v (with no field name, the data of a),  *)
(* and with field names it fails when the data of a has no fields.         *)
C28_SetVarPath ==
    [][(result'.call = "set_var")
          => LET left == result'.left
                 a == left[1]
             IN  /\ pc' # "panicked"
                 /\ result'.ok
                       => DataAt(Last(scopes'.vars[a]).data, Tail(left))
                             = result'.data
                 /\ (/\ Len(left) >= 2
                     /\ a \in DOMAIN scopes.vars
                     /\ scopes.vars[a] # <<>>
                     /\ Last(scopes.vars[a]).data # NoneV
                     /\ Last(scopes.vars[a]).data.t \notin {"Object", "Class"})
                       => ~result'.ok]_vars

\* the last state of sym where there is one
Top(s, sym) ==
    IF sym \in DOMAIN s.vars /\ s.vars[sym] # <<>>
    THEN Last(s.vars[sym])
    ELSE VarState(PermEmpty, TRUE, NoneV)

(* C30: reading a takeable variable that holds a value which is not        *)
(* copyable returns the value and leaves the name unreadable: the next     *)
(* read fails with VarUndefined or VarDoesNotExist; a copyable value and   *)
(* the value of a binding that is not takeable are returned with the scope *)
(* stack left as it was; and copy_var leaves the scope stack as it was.    *)
C30_MoveSemantics ==
    [][/\ (result'.call = "take_var" /\ Top(scopes, result'.left[1]).data # NoneV)
          => LET top == Top(scopes, result'.left[1])
             IN  /\ result'.ok
                 /\ result'.v = top.data
                 /\ IF top.takeable /\ ~is_copy(top.data)
                    THEN LET again == take_var(scopes', result'.left[1])
                         IN  /\ ~again.ok
                             /\ again.v \in {"VarUndefined", "VarDoesNotExist"}
                    ELSE scopes' = scopes
       /\ (result'.call = "copy_var") => (scopes' = scopes)]_vars

-----------------------------------------------------------------------------
(* The vm: the ModuleBuilder that emits the bytecode and the Module that   *)
(* decodes it.  `module` holds the code as a sequence of bytes and the     *)
(* constants as their count (the index of a constant is what the bytecode  *)
(* carries); `source` is the list of instructions pushed so far, each with *)
(* the offset it was pushed at.                                            *)

\* most instructions pushed into one module
MaxInstructions == 3

U16_MAX == 65535

U24_MAX == 16777215

\* the enum Instruction in the order of its discriminants
InstructionNames ==
    <<"Nop", "Return", "ReturnValue", "Call", "Constant", "Constant2",
      "Constant3">>

\* Instruction::into: the discriminant of ins
into(ins) == CHOOSE b \in 0 .. 6 : InstructionNames[b + 1] = ins

\* Instruction::from_primitive: Nop is the default
from_primitive(byte) ==
    IF byte < Len(InstructionNames) THEN InstructionNames[byte + 1] ELSE "Nop"

RECURSIVE Pow256(_)
Pow256(i) == IF i = 0 THEN 1 ELSE 256 * Pow256(i - 1)

\* n.to_le_bytes() of an unsigned integer of `width` bytes
to_le_bytes(n, width) == [i \in 1 .. width |-> (n \div Pow256(i - 1)) % 256]

RECURSIVE from_le_bytes(_)
from_le_bytes(bytes) ==
    IF bytes = <<>> THEN 0 ELSE bytes[1] + 256 * from_le_bytes(Tail(bytes))

\* the numbers of constants a builder holds when the next one is registered
ConstCounts ==
    (0 .. 2) \cup (U8_MAX - 1 .. U8_MAX + 2) \cup (U16_MAX - 2 .. U16_MAX + 2)
        \cup (U24_MAX - 2 .. U24_MAX)

NoId == [form |-> "None", n |-> 0]

\* ModuleBuilder::register_constant: the id, or NoId where it panics; the
\* cast to u32 keeps a count below U24_MAX as it is
register_constant(const_count) ==
    IF const_count <= U8_MAX
    THEN [form |-> "One", n |-> const_count % 256]
    ELSE IF const_count < U16_MAX
    THEN [form |-> "Two", n |-> const_count % 65536]
    ELSE IF const_count < U24_MAX
    THEN [form |-> "Three", n |-> const_count]
    ELSE NoId

\* the bytes of the index of a ConstantId::Three, a u32
ThreeBytes(n) == to_le_bytes(n, 4)

\* ModuleBuilder::push_const: the bytes pushed onto the code
push_const(id) ==
    IF id.form = "One" THEN <<into("Constant"), id.n>>
    ELSE IF id.form = "Two" THEN <<into("Constant2")>> \o to_le_bytes(id.n, 2)
    ELSE <<into("Constant3")>> \o ThreeBytes(id.n)

\* an instruction pushed or decoded at offset `at`
Instr(at, ins, n) == [at |-> at, ins |-> ins, n |-> n]

\* the reads of `width` bytes at ip, the index they give and the ip after
\* them; a read past the end of the code or of the constants panics
ReadConst(m, ip, width) ==
    IF ip + width > Len(m.code) THEN [ok |-> FALSE, ip |-> ip, num |-> 0]
    ELSE LET num == from_le_bytes(SubSeq(m.code, ip + 1, ip + width))
         IN  [ok |-> num < m.constants, ip |-> ip + width, num |-> num]

read_const1(m, ip) == ReadConst(m, ip, 1)

read_const2(m, ip) == ReadConst(m, ip, 2)

read_const3(m, ip) == ReadConst(m, ip, 3)

\* the loop of Module::run: the instructions it executes, in order
RECURSIVE run(_, _, _)
run(m, ip, done) ==
    IF ~(ip < Len(m.code)) THEN [ok |-> TRUE, v |-> done]
    ELSE LET ins == from_primitive(m.code[ip + 1])
             read == IF ins = "Constant" THEN ReadConst(m, ip + 1, 1)
                     ELSE IF ins = "Constant2" THEN ReadConst(m, ip + 1, 2)
                     ELSE ReadConst(m, ip + 1, 3)
         IN  IF ins = "Nop" THEN run(m, ip + 1, Append(done, Instr(ip, ins, 0)))
             ELSE IF ins \in {"Return", "ReturnValue", "Call"}
             THEN [ok |-> FALSE, v |-> done]
             ELSE IF ~read.ok THEN [ok |-> FALSE, v |-> done]
             ELSE run(m, read.ip, Append(done, Instr(ip, ins, read.num)))

\* the loop of Disassemble::disassemble: the instructions it prints
RECURSIVE disassemble(_, _, _)
disassemble(m, ip, done) ==
    IF ~(ip < Len(m.code)) THEN [ok |-> TRUE, v |-> done]
    ELSE LET opcode == from_primitive(m.code[ip + 1])
             read == IF opcode = "Constant" THEN read_const1(m, ip + 1)
                     ELSE IF opcode = "Constant2" THEN read_const2(m, ip + 1)
                     ELSE read_const3(m, ip + 1)
         IN  IF opcode \in {"Nop", "Return", "ReturnValue"}
             THEN disassemble(m, ip + 1, Append(done, Instr(ip, opcode, 0)))
             ELSE IF opcode = "Call"
             THEN IF ip + 1 < Len(m.code)
                  THEN disassemble(m, ip + 2,
                           Append(done, Instr(ip, opcode, m.code[ip + 2])))
                  ELSE [ok |-> FALSE, v |-> done]
             ELSE IF ~read.ok THEN [ok |-> FALSE, v |-> done]
             ELSE disassemble(m, read.ip,
                      Append(done, Instr(ip, opcode, read.num)))

InitModule ==
    /\ module \in [code : {<<>>}, constants : ConstCounts]
    /\ source = <<>>
    /\ pc = "ready"
    /\ result = NoneV
    /\ parser = ParserNew(<<>>)
    /\ slot_map = SlotMapNew
    /\ scopes = ScopeStackNew

\* ModuleBuilder::register_constant
RegisterConstant ==
    /\ pc = "ready"
    /\ Len(source) < MaxInstructions
    /\ LET id == register_constant(module.constants)
       IN  /\ result' = [call |-> "register_constant", ok |-> id # NoId,
                         id |-> id, v |-> <<>>]
           /\ module' = IF id = NoId THEN module
                        ELSE [module EXCEPT !.constants = @ + 1]
           /\ pc' = IF id = NoId THEN "panicked" ELSE "registered"
    /\ UNCHANGED <<source, parser, slot_map, scopes>>

\* ModuleBuilder::push_const of the id register_constant returned
PushConst ==
    /\ pc = "registered"
    /\ module' = [module EXCEPT !.code = @ \o push_const(result.id)]
    /\ source' = Append(source,
                     Instr(Len(module.code),
                           from_primitive(push_const(result.id)[1]),
                           result.id.n))
    /\ result' = [call |-> "push_const", ok |-> TRUE, id |-> result.id,
                  v |-> <<>>]
    /\ pc' = "ready"
    /\ UNCHANGED <<parser, slot_map, scopes>>

\* ModuleBuilder::push_nop
PushNop ==
    /\ pc = "ready"
    /\ Len(source) < MaxInstructions
    /\ module' = [module EXCEPT !.code = Append(@, into("Nop"))]
    /\ source' = Append(source, Instr(Len(module.code), "Nop", 0))
    /\ result' = [call |-> "push_nop", ok |-> TRUE, id |-> NoId, v |-> <<>>]
    /\ pc' = "ready"
    /\ UNCHANGED <<parser, slot_map, scopes>>

\* Module::start on the module the builder holds
Run ==
    /\ pc = "ready"
    /\ source # <<>>
    /\ LET r == run(module, 0, <<>>)
       IN  result' = [call |-> "run", ok |-> r.ok, id |-> NoId, v |-> r.v]
    /\ pc' = "decoded"
    /\ UNCHANGED <<source, parser, machines>>

\* Disassemble::disassemble on the module the builder holds
Disassemble ==
    /\ pc = "ready"
    /\ source # <<>>
    /\ LET r == disassemble(module, 0, <<>>)
       IN  result' = [call |-> "disassemble", ok |-> r.ok, id |-> NoId,
                      v |-> r.v]
    /\ pc' = "decoded"
    /\ UNCHANGED <<source, parser, machines>>

NextModule == RegisterConstant \/ PushConst \/ PushNop \/ Run \/ Disassemble

SpecModule == InitModule /\ [][NextModule]_vars

(* C29: the instructions Module::run executes and the ones the             *)
(* disassembler prints are the instructions the builder pushed: each       *)
(* constant instruction is decoded at the offset it was pushed at, to the  *)
(* index register_constant returned, and the instruction after it is the   *)
(* next one pushed.                                                        *)
C29_ConstantRoundTrip ==
    (pc = "decoded") => (result.ok /\ result.v = source)

====
